---- MODULE Spec2Model ----
(***************************************************************************)
(* Model of mesh_filter::MeshFilterBase                                    *)
(* (moveit_ros/perception/mesh_filter/src/mesh_filter_base.cpp):           *)
(* a worker thread that owns the rendering context and executes the jobs  *)
(* that caller threads append to jobs_queue_, the handle allocator of      *)
(* addMesh/removeMesh, the two-stage doFilter pass, setSize and the        *)
(* destructor.                                                             *)
(*                                                                         *)
(* Threads: the caller threads of Callers, the worker (filter_thread_),    *)
(* and the thread that runs the destructor.  Every step is one atomic      *)
(* action; a critical section of jobs_mutex_ taken by a caller is one      *)
(* action guarded by the mutex being free.  std::condition_variable is     *)
(* modelled without spurious wake-ups.                                     *)
(***************************************************************************)
EXTENDS Integers, Sequences, FiniteSets, TLC

\* ---------------------------------------------------------------- bounds
\* number of jobs the callers create before and during the destruction
MaxJobs == 2
\* number of jobs the callers of a filter that stays alive create
MaxLiveJobs == 3
\* number of add-mesh and remove-mesh jobs of callers that do nothing else
MaxAllocJobs == 5
\* removeMesh is called with handles FIRST_LABEL .. FIRST_LABEL + MaxRemoveOff
MaxRemoveOff == 1
\* number of jobs of callers that also replace the transform callback
MaxPassJobs == 3
\* number of jobs of callers that also set the tunable scalars
MaxTuneJobs == 2
\* number of jobs of callers that read the buffers back
MaxReadJobs == 4
\* number of jobs of the callers of a fairly scheduled filter
MaxFairJobs == 2
\* number of frames submitted to a sensor with chosen clipping planes
MaxEncodeJobs == 1
\* number of add-mesh and remove-mesh jobs of callers that also pass reserved labels
MaxLabelJobs == 4

\* ------------------------------------------------------- program constants
\* first handle issued: FIRST_LABEL of the label enum of mesh_filter_base.hpp,
\* which reserves the labels below it (line 61)
FIRST_LABEL == 16
\* OpenGL type tags compared in filter()
GL_FLOAT == 5126
GL_UNSIGNED_SHORT == 5123
\* a tag that filter() does not accept
GL_UNSIGNED_BYTE == 5121
\* largest sample of the 16-bit encoding (line 370)
USHRT_MAX == 65535
\* millimetres per metre: the factor of line 372 is 65.535 = USHRT_MAX / 1000
MM_PER_M == 1000

Callers == {"c1", "c2"}
WORKER == "worker"
DTOR == "destructor"
FREE == "free"
NULL == "null"

\* inputs of the public operations
Encodings == {GL_FLOAT, GL_UNSIGNED_SHORT, GL_UNSIGNED_BYTE}
RemoveArgs == FIRST_LABEL .. (FIRST_LABEL + MaxRemoveOff)
\* handles below FIRST_LABEL that a caller may pass to removeMesh
ReservedArgs == {0, 1, FIRST_LABEL - 1}
\* sensor_parameters_->getWidth(), getHeight() at construction
SensorSize == <<4, 2>>
\* (width, height) arguments of setSize
ResizeArgs == {<<2, 2>>}
\* the callback given to the constructor and the arguments of setTransformCallback
CtorCallback == "cb0"
Callbacks == {"cb0", "cb1"}
\* clipping plane distances of the sensor, in metres, as the float getters
\* return them: 1073725/16384 is a float below 65.535 and 2147451/32768 is
\* the float nearest to 65.535, which lies above it
Nears == {[n |-> 0, d |-> 1], [n |-> 1, d |-> 2]}
Fars == {[n |-> 5, d |-> 1], [n |-> 1073725, d |-> 16384], [n |-> 2147451, d |-> 32768],
         [n |-> 100, d |-> 1]}
\* samples of a frame
Samples == {0, 2000, USHRT_MAX}
\* arguments of setShadowThreshold, setPaddingScale and setPaddingOffset
Thresholds == {[n |-> 1, d |-> 10]}
PaddingScales == {[n |-> 2, d |-> 1]}
PaddingOffsets == {[n |-> 0, d |-> 1]}

VARIABLES
  meshes_,          \* std::map<MeshHandle, GLMeshPtr>: handle -> id of the add job that built the GLMesh
  next_handle_,     \* handle the next add-mesh job registers under
  min_handle_,      \* lower bound of the scan in addMesh
  stop_,            \* stop flag of the run loop
  jobs_queue_,      \* std::queue<JobPtr>: sequence of job ids
  jobs_mutex_,      \* holder of jobs_mutex_ (FREE or WORKER while the worker holds it)
  meshes_mutex_,    \* holder of meshes_mutex_
  mesh_renderer_,   \* mesh_renderer_: GLRenderer of the render pass, [live, size, cam]
  depth_filter_,    \* depth_filter_: GLRenderer of the filter pass, [live, size, cam]
  renderBuf,        \* buffers of mesh_renderer_: [pass, labels]
  filterBuf,        \* buffers of depth_filter_: [pass, enc]
  jobs,             \* every job created so far, indexed by position of its push
  wpc,              \* worker: position in run()
  wjob,             \* worker: the job dequeued at line 285 (0 if none)
  pass,             \* worker: progress of the render loop of doFilter
  dpc,              \* destructor thread: position in ~MeshFilterBase
  pc,               \* caller -> position in its current public call
  call,             \* caller -> the call in progress or just finished
  settledIn,        \* handles returned by addMesh with no removeMesh of them started since
  settledOut,       \* handles whose removeMesh returned with no addMesh that may reuse them started since
  lastFilter,       \* caller -> id of the last filter job it submitted (0 if none)
  jobsLeft,         \* number of jobs the callers may still create
  transform_callback_,        \* the TransformCallback in use (its identity)
  transform_callback_mutex_,  \* holder of transform_callback_mutex_
  shadow_threshold_,          \* tunable scalars, as rationals
  padding_scale_,
  padding_offset_,
  sensor_parameters_,         \* [near, far]: clipping plane distances in metres, as rationals
  sensor_data,                \* the sample of the frame that sensor_data points to
  sensor_depth_texture_,      \* the texture of the sensor frame: [exists, depth]
  canvas_                     \* the display list canvas_ exists

\* the callback and its mutex
callback == <<transform_callback_, transform_callback_mutex_>>

\* the tunable scalars
scalars == <<shadow_threshold_, padding_scale_, padding_offset_>>

\* the sensor's parameters, the frame, its texture and the canvas it is drawn on
sensor == <<sensor_parameters_, sensor_data, sensor_depth_texture_, canvas_>>

tuning == <<callback, scalars, sensor>>

vars == <<meshes_, next_handle_, min_handle_, stop_, jobs_queue_, jobs_mutex_,
          meshes_mutex_, mesh_renderer_, depth_filter_, renderBuf, filterBuf,
          jobs, wpc, wjob, pass, dpc, pc, call, settledIn, settledOut,
          lastFilter, jobsLeft, tuning>>

\* ---------------------------------------------------------------- helpers
Min(S) == CHOOSE x \in S : \A y \in S : x <= y

\* meshes_[k] = v
MapPut(m, k, v) == [x \in (DOMAIN m) \cup {k} |-> IF x = k THEN v ELSE m[x]]

\* meshes_.erase(k)
MapErase(m, k) == [x \in (DOMAIN m) \ {k} |-> m[x]]

NoMeshes == [x \in {} |-> 0]

\* ------------------------------------------------------------- rationals
\* float values are modelled as exact fractions [n, d] in lowest terms, d > 0.
\* An operator binds each argument to its value through a singleton set, so
\* that an argument is evaluated once however often the body uses it.
Only(S) == CHOOSE x \in S : TRUE

RECURSIVE GCD(_, _)
GCD(a, b) == IF b = 0 THEN a ELSE Only({GCD(b, r) : r \in {a % b}})

Abs(x) == IF x < 0 THEN -x ELSE x

Rat(n, d) ==
  Only({[n |-> (IF dv < 0 THEN -1 ELSE 1) * (nv \div g),
         d |-> (IF dv < 0 THEN -1 ELSE 1) * (dv \div g)] :
        <<nv, dv, g>> \in {<<n, d, Only({GCD(Abs(a), Abs(b)) : <<a, b>> \in {<<n, d>>}})>>}})

RAdd(x, y) ==
  Only({Rat(a.n * (b.d \div g) + b.n * (a.d \div g), (a.d \div g) * b.d) :
        <<a, b, g>> \in {<<x, y, Only({GCD(p.d, q.d) : <<p, q>> \in {<<x, y>>}})>>}})
RNeg(x) == Only({[n |-> -a.n, d |-> a.d] : a \in {x}})
RSub(x, y) == RAdd(x, RNeg(y))
RMul(x, y) ==
  Only({Rat(p.n * q.n, p.d * q.d) :
        <<p, q>> \in {<<Only({Rat(a.n, b.d) : <<a, b>> \in {<<x, y>>}}),
                        Only({Rat(b.n, a.d) : <<a, b>> \in {<<x, y>>}})>>}})
RInv(x) == Only({Rat(a.d, a.n) : a \in {x}})
RLess(x, y) == RSub(x, y).n < 0

NoBuf == [pass |-> 0, labels |-> {}]
\* a texture name that glGenTextures has not produced or that was deleted
NoTexture == [exists |-> FALSE, depth |-> [n |-> 0, d |-> 1]]
\* glGenTextures, line 92
NewTexture == [exists |-> TRUE, depth |-> [n |-> 0, d |-> 1]]
NoFilterBuf == [pass |-> 0, enc |-> 0, labels |-> {}, threshold |-> [n |-> 0, d |-> 1],
                padding |-> <<[n |-> 0, d |-> 1], [n |-> 0, d |-> 1]>>]
\* a float array of the caller that no readback has written
NoDepth == [pass |-> 0, labels |-> {}, metric |-> <<>>]
NoCall == [op |-> "none", arg |-> 0, wait |-> FALSE, job |-> 0, job2 |-> 0, ref |-> "ok",
           depth |-> NoDepth,
           size |-> <<0, 0>>, ret |-> 0, buf |-> NoBuf, cb |-> "none",
           val |-> [n |-> 0, d |-> 1], i |-> 0, sz |-> 0,
           seen |-> [meshes |-> NoMeshes, next |-> 0, min |-> 0]]

\* registry and handle counters as a mesh call finds them once it holds meshes_mutex_
Seen == [meshes |-> meshes_, next |-> next_handle_, min |-> min_handle_]
NoPass == [todo |-> {}, iter |-> {}, rendered |-> {}, posed |-> {}, cbs |-> {},
           padding |-> <<Rat(0, 1), Rat(0, 1)>>, unread |-> {}]

\* GLRenderer::setBufferSize(width, height)
SetBufferSize(renderer, width, height) == [renderer EXCEPT !.size = <<width, height>>]

\* GLRenderer::setCameraParameters(width, width, width >> 1, height >> 1)
SetCameraParameters(renderer, width, height) ==
  [renderer EXCEPT !.cam = <<width, width, width \div 2, height \div 2>>]

\* GLRenderer constructed in initialize() with the sensor's width and height
NewRenderer == [live |-> TRUE, size |-> SensorSize, cam |-> <<0, 0, 0, 0>>]

\* an empty std::shared_ptr<GLRenderer>
NoRenderer == [live |-> FALSE, size |-> <<0, 0>>, cam |-> <<0, 0, 0, 0>>]

\* ------------------------------------------------------------------- Job
\* FilterJob: done_ and result_, with the job's position in its life cycle
NewJob(kind, arg, owner, ref) ==
  [kind |-> kind, arg |-> arg, owner |-> owner, ref |-> ref,
   done |-> FALSE, st |-> "pending", result |-> FALSE, set |-> FALSE, data |-> NoBuf,
   see |-> settledIn, notsee |-> settledOut]

\* what is kept of a job once its last JobPtr is gone: how it ended
Retired(j) ==
  [kind |-> "none", arg |-> 0, owner |-> "none", ref |-> "ok",
   done |-> j.done, st |-> j.st, result |-> FALSE, set |-> FALSE, data |-> NoBuf,
   see |-> {}, notsee |-> {}]

\* a caller still holds a JobPtr to job id
Held(id) == \E c \in Callers : call[c].job = id \/ call[c].job2 = id

\* Job::cancel(): done_ = true, waiters notified, the payload is not run
JobCancel(j) == [j EXCEPT !.done = TRUE, !.st = "cancelled"]

\* end of FilterJob::execute(): result_ stored (a void job stores none; FALSE
\* stands for it), done_ = true, waiters notified
JobFinish(j, result) ==
  [j EXCEPT !.done = TRUE, !.st = "completed", !.result = result, !.set = TRUE]

\* FilterJob<bool>::getResult(): result_ is written only by execute(), so the
\* result of a cancelled job is an uninitialized bool
JobResults(j) == IF j.set THEN {j.result} ELSE BOOLEAN

\* a notify that reaches no thread
NotifiedWorker_Lost == wpc

\* jobs_condition_.notify_one(): the worker is the only thread that waits on it
NotifiedWorker == IF wpc = "waiting" THEN "woken" ELSE wpc

\* ------------------------------------------------------------------ Init
\* state after the constructor (lines 60-73): the worker thread is spawned
\* and has not yet run initialize()
Constructed ==
  /\ meshes_ = NoMeshes
  /\ next_handle_ = FIRST_LABEL
  /\ min_handle_ = FIRST_LABEL
  /\ stop_ = FALSE
  /\ jobs_queue_ = <<>>
  /\ jobs_mutex_ = FREE
  /\ meshes_mutex_ = FREE
  /\ mesh_renderer_ = NoRenderer
  /\ depth_filter_ = NoRenderer
  /\ renderBuf = NoBuf
  /\ filterBuf = NoFilterBuf
  /\ jobs = <<>>
  /\ wpc = "init"
  /\ wjob = 0
  /\ pass = NoPass
  /\ dpc = "idle"
  /\ pc = [c \in Callers |-> "idle"]
  /\ call = [c \in Callers |-> NoCall]
  /\ settledIn = {}
  /\ settledOut = {}
  /\ lastFilter = [c \in Callers |-> 0]
  /\ transform_callback_ = CtorCallback
  /\ transform_callback_mutex_ = FREE
  /\ padding_scale_ = Rat(1, 1)
  /\ padding_offset_ = Rat(1, 100)
  /\ shadow_threshold_ = Rat(1, 2)
  /\ sensor_depth_texture_ = NoTexture
  /\ canvas_ = FALSE

\* the sensor parameters given to the constructor and the frame of the camera
Sensor(near, far, sample) ==
  /\ sensor_parameters_ = [near |-> near, far |-> far]
  /\ sensor_data = sample

\* a sensor with clipping planes at 0.5 m and 5 m that sees a point at 2 m
DefaultSensor == Sensor(Rat(1, 2), Rat(5, 1), 2)

Init == Constructed /\ DefaultSensor /\ jobsLeft = MaxJobs

\* ------------------------------------------------------- caller: entry
\* a call that creates a job takes one from the budget
CanSubmit == jobsLeft > 0

\* a thread enters a public call only on an object whose destructor has not
\* begun. This guards the entry of a call and nothing after it: the destructor
\* (lines 123-136) stops no caller, so a call that has entered takes its
\* locks, appends its job and waits whatever the destructor has done
CanCall(c) == pc[c] = "idle" /\ dpc = "idle"

\* addMesh, line 172: the call is entered and goes on to the lock of line 174
AddMeshCall(c) ==
  /\ CanCall(c) /\ CanSubmit
  /\ call' = [call EXCEPT ![c] = [NoCall EXCEPT !.op = "add", !.wait = TRUE]]
  /\ pc' = [pc EXCEPT ![c] = "meshes_lock"]
  /\ jobsLeft' = jobsLeft - 1
  /\ UNCHANGED <<meshes_, next_handle_, min_handle_, stop_, jobs_queue_, jobs_mutex_,
                 meshes_mutex_, mesh_renderer_, depth_filter_, renderBuf, filterBuf, jobs,
                 wpc, wjob, pass, dpc, settledIn, settledOut, lastFilter, tuning>>

\* addMesh, lines 174-176: the blocking lock of meshes_mutex_ is granted, the
\* job is created; the job is appended by addJob (line 177)
AddMeshLock(c) ==
  /\ pc[c] = "meshes_lock" /\ call[c].op = "add"
  /\ meshes_mutex_ = FREE
  /\ meshes_mutex_' = c
  /\ call' = [call EXCEPT ![c].seen = Seen]
  /\ pc' = [pc EXCEPT ![c] = "push"]
  /\ settledOut' = settledOut \ {next_handle_}
  /\ UNCHANGED <<meshes_, next_handle_, min_handle_, stop_, jobs_queue_, jobs_mutex_,
                 mesh_renderer_, depth_filter_, renderBuf, filterBuf, jobs, wpc, wjob,
                 pass, dpc, settledIn, lastFilter, jobsLeft, tuning>>

\* removeMesh, line 198: the call is entered and goes on to the lock of line 200
RemoveMeshCall(c, handle) ==
  /\ CanCall(c) /\ CanSubmit
  /\ call' = [call EXCEPT ![c] = [NoCall EXCEPT !.op = "remove", !.arg = handle,
                                                !.wait = TRUE]]
  /\ pc' = [pc EXCEPT ![c] = "meshes_lock"]
  /\ jobsLeft' = jobsLeft - 1
  /\ UNCHANGED <<meshes_, next_handle_, min_handle_, stop_, jobs_queue_, jobs_mutex_,
                 meshes_mutex_, mesh_renderer_, depth_filter_, renderBuf, filterBuf, jobs,
                 wpc, wjob, pass, dpc, settledIn, settledOut, lastFilter, tuning>>

\* removeMesh, lines 200-202: the blocking lock of meshes_mutex_ is granted,
\* the remover job is created; the job is appended by addJob (line 203)
RemoveMeshLock(c) ==
  /\ pc[c] = "meshes_lock" /\ call[c].op = "remove"
  /\ meshes_mutex_ = FREE
  /\ meshes_mutex_' = c
  /\ call' = [call EXCEPT ![c].seen = Seen]
  /\ pc' = [pc EXCEPT ![c] = "push"]
  /\ settledIn' = settledIn \ {call[c].arg}
  /\ UNCHANGED <<meshes_, next_handle_, min_handle_, stop_, jobs_queue_, jobs_mutex_,
                 mesh_renderer_, depth_filter_, renderBuf, filterBuf, jobs, wpc, wjob,
                 pass, dpc, settledOut, lastFilter, jobsLeft, tuning>>

\* a test that also lets GL_UNSIGNED_BYTE through
SupportedEncoding_Wide(type) ==
  type = GL_FLOAT \/ type = GL_UNSIGNED_SHORT \/ type = GL_UNSIGNED_BYTE

\* filter, line 297: the encodings a request may carry
SupportedEncoding(type) == type = GL_FLOAT \/ type = GL_UNSIGNED_SHORT

\* filter, lines 297-304: reject an unknown encoding, else create the job
FilterCall(c, type, wait) ==
  /\ CanCall(c)
  /\ call' = [call EXCEPT ![c] = [NoCall EXCEPT !.op = "filter", !.arg = type, !.wait = wait]]
  /\ IF ~SupportedEncoding(type)
       THEN /\ pc' = [pc EXCEPT ![c] = "threw"]
            /\ UNCHANGED jobsLeft
       ELSE /\ CanSubmit
            /\ jobsLeft' = jobsLeft - 1
            /\ pc' = [pc EXCEPT ![c] = "push"]
  /\ UNCHANGED <<meshes_, next_handle_, min_handle_, stop_, jobs_queue_, jobs_mutex_,
                 meshes_mutex_, mesh_renderer_, depth_filter_, renderBuf, filterBuf, jobs,
                 wpc, wjob, pass, dpc, settledIn, settledOut, lastFilter, tuning>>

\* getModelLabels, lines 224-225: the job captures *mesh_renderer_ in the
\* calling thread.  Dereferencing an empty shared_ptr is undefined: the call
\* either stops there or goes on with a reference to no renderer.
GetModelLabelsCall(c) ==
  /\ CanCall(c) /\ CanSubmit
  /\ jobsLeft' = jobsLeft - 1
  /\ \/ /\ mesh_renderer_.live
        /\ call' = [call EXCEPT ![c] = [NoCall EXCEPT !.op = "labels", !.wait = TRUE]]
        /\ pc' = [pc EXCEPT ![c] = "push"]
     \/ /\ ~mesh_renderer_.live
        /\ call' = [call EXCEPT ![c] = [NoCall EXCEPT !.op = "labels", !.wait = TRUE,
                                                      !.ref = NULL]]
        /\ \/ pc' = [pc EXCEPT ![c] = "push"]
           \/ pc' = [pc EXCEPT ![c] = "crashed"]
  /\ UNCHANGED <<meshes_, next_handle_, min_handle_, stop_, jobs_queue_, jobs_mutex_,
                 meshes_mutex_, mesh_renderer_, depth_filter_, renderBuf, filterBuf, jobs,
                 wpc, wjob, pass, dpc, settledIn, settledOut, lastFilter, tuning>>

\* getFilteredLabels, lines 263-264: the job captures *depth_filter_ in the
\* calling thread, as getModelLabels captures *mesh_renderer_
GetFilteredLabelsCall(c) ==
  /\ CanCall(c) /\ CanSubmit
  /\ jobsLeft' = jobsLeft - 1
  /\ \/ /\ depth_filter_.live
        /\ call' = [call EXCEPT ![c] = [NoCall EXCEPT !.op = "flabels", !.wait = TRUE]]
        /\ pc' = [pc EXCEPT ![c] = "push"]
     \/ /\ ~depth_filter_.live
        /\ call' = [call EXCEPT ![c] = [NoCall EXCEPT !.op = "flabels", !.wait = TRUE,
                                                      !.ref = NULL]]
        /\ \/ pc' = [pc EXCEPT ![c] = "push"]
           \/ pc' = [pc EXCEPT ![c] = "crashed"]
  /\ UNCHANGED <<meshes_, next_handle_, min_handle_, stop_, jobs_queue_, jobs_mutex_,
                 meshes_mutex_, mesh_renderer_, depth_filter_, renderBuf, filterBuf, jobs,
                 wpc, wjob, pass, dpc, settledIn, settledOut, lastFilter, tuning>>

\* getModelDepth, lines 232-235, and getFilteredDepth, lines 248-250: two
\* jobs are created; the first captures the renderer in the calling thread
DepthCall(c, op, renderer) ==
  /\ CanCall(c) /\ jobsLeft >= 2
  /\ jobsLeft' = jobsLeft - 2
  /\ \/ /\ renderer.live
        /\ call' = [call EXCEPT ![c] = [NoCall EXCEPT !.op = op, !.wait = TRUE]]
        /\ pc' = [pc EXCEPT ![c] = "push2"]
     \/ /\ ~renderer.live
        /\ call' = [call EXCEPT ![c] = [NoCall EXCEPT !.op = op, !.wait = TRUE, !.ref = NULL]]
        /\ \/ pc' = [pc EXCEPT ![c] = "push2"]
           \/ pc' = [pc EXCEPT ![c] = "crashed"]
  /\ UNCHANGED <<meshes_, next_handle_, min_handle_, stop_, jobs_queue_, jobs_mutex_,
                 meshes_mutex_, mesh_renderer_, depth_filter_, renderBuf, filterBuf, jobs,
                 wpc, wjob, pass, dpc, settledIn, settledOut, lastFilter, tuning>>

GetModelDepthCall(c) == DepthCall(c, "mdepth", mesh_renderer_)

GetFilteredDepthCall(c) == DepthCall(c, "fdepth", depth_filter_)

\* setSize, line 159, executed in the calling thread with no lock:
\* mesh_renderer_->setBufferSize(width, height)
SetSizeRenderer(c, size) ==
  /\ CanCall(c)
  /\ call' = [call EXCEPT ![c] = [NoCall EXCEPT !.op = "setSize", !.size = size]]
  /\ IF ~mesh_renderer_.live
       THEN /\ pc' = [pc EXCEPT ![c] = "crashed"]
            /\ UNCHANGED mesh_renderer_
       ELSE /\ mesh_renderer_' = SetBufferSize(mesh_renderer_, size[1], size[2])
            /\ pc' = [pc EXCEPT ![c] = "size_rc"]
  /\ UNCHANGED <<meshes_, next_handle_, min_handle_, stop_, jobs_queue_, jobs_mutex_,
                 meshes_mutex_, depth_filter_, renderBuf, filterBuf, jobs, wpc, wjob, pass,
                 dpc, settledIn, settledOut, lastFilter, jobsLeft, tuning>>

\* setSize, line 160: mesh_renderer_->setCameraParameters(...)
SetCameraRenderer(c) ==
  /\ pc[c] = "size_rc"
  /\ IF ~mesh_renderer_.live
       THEN /\ pc' = [pc EXCEPT ![c] = "crashed"]
            /\ UNCHANGED mesh_renderer_
       ELSE /\ mesh_renderer_' =
                 SetCameraParameters(mesh_renderer_, call[c].size[1], call[c].size[2])
            /\ pc' = [pc EXCEPT ![c] = "size_f"]
  /\ UNCHANGED <<meshes_, next_handle_, min_handle_, stop_, jobs_queue_, jobs_mutex_,
                 meshes_mutex_, depth_filter_, renderBuf, filterBuf, jobs, wpc, wjob, pass,
                 dpc, call, settledIn, settledOut, lastFilter, jobsLeft, tuning>>

\* setSize, line 162: depth_filter_->setBufferSize(width, height)
SetSizeFilter(c) ==
  /\ pc[c] = "size_f"
  /\ IF ~depth_filter_.live
       THEN /\ pc' = [pc EXCEPT ![c] = "crashed"]
            /\ UNCHANGED depth_filter_
       ELSE /\ depth_filter_' = SetBufferSize(depth_filter_, call[c].size[1], call[c].size[2])
            /\ pc' = [pc EXCEPT ![c] = "size_fc"]
  /\ UNCHANGED <<meshes_, next_handle_, min_handle_, stop_, jobs_queue_, jobs_mutex_,
                 meshes_mutex_, mesh_renderer_, renderBuf, filterBuf, jobs, wpc, wjob,
                 pass, dpc, call, settledIn, settledOut, lastFilter, jobsLeft, tuning>>

\* setSize, line 163: depth_filter_->setCameraParameters(...)
SetCameraFilter(c) ==
  /\ pc[c] = "size_fc"
  /\ IF ~depth_filter_.live
       THEN /\ pc' = [pc EXCEPT ![c] = "crashed"]
            /\ UNCHANGED depth_filter_
       ELSE /\ depth_filter_' =
                 SetCameraParameters(depth_filter_, call[c].size[1], call[c].size[2])
            /\ pc' = [pc EXCEPT ![c] = "returned"]
  /\ UNCHANGED <<meshes_, next_handle_, min_handle_, stop_, jobs_queue_, jobs_mutex_,
                 meshes_mutex_, mesh_renderer_, renderBuf, filterBuf, jobs, wpc, wjob,
                 pass, dpc, call, settledIn, settledOut, lastFilter, jobsLeft, tuning>>

\* setTransformCallback, line 166: the call is entered with its argument and
\* goes on to the lock of line 168
SetTransformCallbackCall(c, transform_callback) ==
  /\ CanCall(c)
  /\ call' = [call EXCEPT ![c] = [NoCall EXCEPT !.op = "setTransformCallback",
                                                !.cb = transform_callback]]
  /\ pc' = [pc EXCEPT ![c] = "callback_lock"]
  /\ UNCHANGED <<meshes_, next_handle_, min_handle_, stop_, jobs_queue_, jobs_mutex_,
                 meshes_mutex_, mesh_renderer_, depth_filter_, renderBuf, filterBuf, jobs,
                 wpc, wjob, pass, dpc, settledIn, settledOut, lastFilter, jobsLeft, tuning>>

\* a replacement that does not take transform_callback_mutex_
SetTransformCallback_NoLock(c) ==
  /\ pc[c] = "callback_lock"
  /\ transform_callback_' = call[c].cb
  /\ pc' = [pc EXCEPT ![c] = "returned"]
  /\ UNCHANGED <<meshes_, next_handle_, min_handle_, stop_, jobs_queue_, jobs_mutex_,
                 meshes_mutex_, mesh_renderer_, depth_filter_, renderBuf, filterBuf, jobs,
                 wpc, wjob, pass, dpc, call, settledIn, settledOut, lastFilter, jobsLeft,
                 transform_callback_mutex_, scalars, sensor>>

\* setTransformCallback, lines 168-169: the blocking lock of
\* transform_callback_mutex_ is granted, the callback is assigned in the
\* calling thread and the lock is released at the return
SetTransformCallback(c) ==
  /\ pc[c] = "callback_lock"
  /\ transform_callback_mutex_ = FREE
  /\ transform_callback_' = call[c].cb
  /\ pc' = [pc EXCEPT ![c] = "returned"]
  /\ UNCHANGED <<meshes_, next_handle_, min_handle_, stop_, jobs_queue_, jobs_mutex_,
                 meshes_mutex_, mesh_renderer_, depth_filter_, renderBuf, filterBuf, jobs,
                 wpc, wjob, pass, dpc, call, settledIn, settledOut, lastFilter, jobsLeft,
                 transform_callback_mutex_, scalars, sensor>>

\* entry of a setter of a tunable scalar: no mutex is taken and no job is made
SetScalarCall(c, op, value) ==
  /\ CanCall(c)
  /\ call' = [call EXCEPT ![c] = [NoCall EXCEPT !.op = op, !.val = value]]
  /\ pc' = [pc EXCEPT ![c] = "store"]
  /\ UNCHANGED <<meshes_, next_handle_, min_handle_, stop_, jobs_queue_, jobs_mutex_,
                 meshes_mutex_, mesh_renderer_, depth_filter_, renderBuf, filterBuf, jobs,
                 wpc, wjob, pass, dpc, settledIn, settledOut, lastFilter, jobsLeft, tuning>>

\* setShadowThreshold, line 217
SetShadowThreshold(c, threshold) == SetScalarCall(c, "setShadowThreshold", threshold)

\* setPaddingOffset, line 398
SetPaddingOffset(c, offset) == SetScalarCall(c, "setPaddingOffset", offset)

\* setPaddingScale, line 403
SetPaddingScale(c, scale) == SetScalarCall(c, "setPaddingScale", scale)

\* lines 219, 400 and 405: the plain store of the setter, in the calling thread
StoreScalar(c) ==
  /\ pc[c] = "store"
  /\ shadow_threshold_' = IF call[c].op = "setShadowThreshold" THEN call[c].val
                                                               ELSE shadow_threshold_
  /\ padding_offset_' = IF call[c].op = "setPaddingOffset" THEN call[c].val
                                                           ELSE padding_offset_
  /\ padding_scale_' = IF call[c].op = "setPaddingScale" THEN call[c].val
                                                         ELSE padding_scale_
  /\ pc' = [pc EXCEPT ![c] = "returned"]
  /\ UNCHANGED <<meshes_, next_handle_, min_handle_, stop_, jobs_queue_, jobs_mutex_,
                 meshes_mutex_, mesh_renderer_, depth_filter_, renderBuf, filterBuf, jobs,
                 wpc, wjob, pass, dpc, call, settledIn, settledOut, lastFilter, jobsLeft,
                 callback, sensor>>

\* ------------------------------------------------------- caller: addJob
\* a push at the front of the queue
QueuePush_Front(q, id) == <<id>> \o q

\* jobs_queue_.push(job)
QueuePush(q, id) == Append(q, id)

\* addJob, lines 141-143: append the job under jobs_mutex_
AddJobPush(c) ==
  /\ pc[c] = "push"
  /\ jobs_mutex_ = FREE
  /\ LET id == Len(jobs) + 1 IN
       /\ jobs' = Append(jobs, NewJob(call[c].op, call[c].arg, c, call[c].ref))
       /\ jobs_queue_' = QueuePush(jobs_queue_, id)
       /\ call' = [call EXCEPT ![c].job = id]
       /\ lastFilter' = IF call[c].op = "filter" THEN [lastFilter EXCEPT ![c] = id]
                                                 ELSE lastFilter
  /\ pc' = [pc EXCEPT ![c] = "notify"]
  /\ UNCHANGED <<meshes_, next_handle_, min_handle_, stop_, jobs_mutex_, meshes_mutex_,
                 mesh_renderer_, depth_filter_, renderBuf, filterBuf, wpc, wjob, pass, dpc,
                 settledIn, settledOut, jobsLeft, tuning>>

\* kind of the second job of getModelDepth and of getFilteredDepth
MetricJob(op) == IF op = "mdepth" THEN "mmetric" ELSE "fmetric"

\* a depth readback that takes jobs_mutex_ once for each of its two jobs
PushTwo_Split(c) ==
  /\ pc[c] = "push2"
  /\ jobs_mutex_ = FREE
  /\ LET id == Len(jobs) + 1 IN
       IF call[c].job = 0
         THEN /\ jobs' = Append(jobs, NewJob(call[c].op, 0, c, call[c].ref))
              /\ jobs_queue_' = QueuePush(jobs_queue_, id)
              /\ call' = [call EXCEPT ![c].job = id]
              /\ pc' = pc
         ELSE /\ jobs' = Append(jobs, NewJob(MetricJob(call[c].op), 0, c, "ok"))
              /\ jobs_queue_' = QueuePush(jobs_queue_, id)
              /\ call' = [call EXCEPT ![c].job2 = id]
              /\ pc' = [pc EXCEPT ![c] = "notify"]
  /\ UNCHANGED <<meshes_, next_handle_, min_handle_, stop_, jobs_mutex_, meshes_mutex_,
                 mesh_renderer_, depth_filter_, renderBuf, filterBuf, wpc, wjob, pass, dpc,
                 settledIn, settledOut, lastFilter, jobsLeft, tuning>>

\* getModelDepth, lines 237-239, getFilteredDepth, lines 252-254: both jobs
\* are appended under one lock of jobs_mutex_
PushTwo(c) ==
  /\ pc[c] = "push2"
  /\ jobs_mutex_ = FREE
  /\ LET id == Len(jobs) + 1 IN
       /\ jobs' = jobs \o <<NewJob(call[c].op, 0, c, call[c].ref),
                             NewJob(MetricJob(call[c].op), 0, c, "ok")>>
       /\ jobs_queue_' = QueuePush(QueuePush(jobs_queue_, id), id + 1)
       /\ call' = [call EXCEPT ![c].job = id, ![c].job2 = id + 1]
  /\ pc' = [pc EXCEPT ![c] = "notify"]
  /\ UNCHANGED <<meshes_, next_handle_, min_handle_, stop_, jobs_mutex_, meshes_mutex_,
                 mesh_renderer_, depth_filter_, renderBuf, filterBuf, wpc, wjob, pass, dpc,
                 settledIn, settledOut, lastFilter, jobsLeft, tuning>>

\* addJob, line 144: notify_one; filter(wait = false) returns after it and
\* drops its JobPtr
AddJobNotify(c) ==
  /\ pc[c] = "notify"
  /\ wpc' = NotifiedWorker
  /\ IF call[c].op = "filter" /\ ~call[c].wait
       THEN /\ pc' = [pc EXCEPT ![c] = "returned"]
            /\ call' = [call EXCEPT ![c].job = 0]
            /\ jobs' = IF jobs[call[c].job].done
                         THEN [jobs EXCEPT ![call[c].job] = Retired(@)]
                         ELSE jobs
       ELSE /\ pc' = [pc EXCEPT ![c] = "wait"]
            /\ UNCHANGED <<call, jobs>>
  /\ UNCHANGED <<meshes_, next_handle_, min_handle_, stop_, jobs_queue_, jobs_mutex_,
                 meshes_mutex_, mesh_renderer_, depth_filter_, renderBuf, filterBuf, wjob,
                 pass, dpc, settledIn, settledOut, lastFilter, jobsLeft, tuning>>

\* ------------------------------------------------------ caller: return
\* Job::wait() returns once done_ is set
Waited(c, op) == pc[c] = "wait" /\ call[c].op = op /\ jobs[call[c].job].done

\* a test that finds every handle free
IsFree_Always(m, i) == TRUE

\* addMesh, line 183: meshes_.find(i) == meshes_.end()
IsFree(m, i) == i \notin DOMAIN m

\* addMesh, lines 178-181: wait() has returned; ret, sz and the loop variable
\* are set from next_handle_, min_handle_ and meshes_.size() as they are now
AddMeshScanBegin(c) ==
  /\ Waited(c, "add")
  /\ call' = [call EXCEPT ![c].ret = next_handle_,
                          ![c].sz = min_handle_ + Cardinality(DOMAIN meshes_) + 1,
                          ![c].i = min_handle_]
  /\ pc' = [pc EXCEPT ![c] = "scan"]
  /\ UNCHANGED <<meshes_, next_handle_, min_handle_, stop_, jobs_queue_, jobs_mutex_,
                 meshes_mutex_, mesh_renderer_, depth_filter_, renderBuf, filterBuf, jobs,
                 wpc, wjob, pass, dpc, settledIn, settledOut, lastFilter, jobsLeft, tuning>>

\* addMesh, lines 181-188: one turn of the loop. i < sz is tested on the
\* call's own variables; the find of line 183 reads meshes_ as it is at this
\* turn, which deInitialize's clear() (line 152) may have emptied since the
\* last one
AddMeshScan(c) ==
  /\ pc[c] = "scan"
  /\ IF call[c].i >= call[c].sz
       THEN /\ pc' = [pc EXCEPT ![c] = "scan_end"]
            /\ UNCHANGED <<next_handle_, call>>
       ELSE IF IsFree(meshes_, call[c].i)
              THEN /\ next_handle_' = call[c].i
                   /\ pc' = [pc EXCEPT ![c] = "scan_end"]
                   /\ UNCHANGED call
              ELSE /\ call' = [call EXCEPT ![c].i = @ + 1]
                   /\ UNCHANGED <<next_handle_, pc>>
  /\ UNCHANGED <<meshes_, min_handle_, stop_, jobs_queue_, jobs_mutex_, meshes_mutex_,
                 mesh_renderer_, depth_filter_, renderBuf, filterBuf, jobs, wpc, wjob,
                 pass, dpc, settledIn, settledOut, lastFilter, jobsLeft, tuning>>

\* addMesh, lines 189-191: min_handle_ follows next_handle_, ret is returned,
\* meshes_mutex_ and the JobPtr are released
AddMeshReturn(c) ==
  /\ pc[c] = "scan_end"
  /\ min_handle_' = next_handle_
  /\ call' = [call EXCEPT ![c].job = 0]
  /\ settledIn' = settledIn \cup {call[c].ret}
  /\ meshes_mutex_' = FREE
  /\ pc' = [pc EXCEPT ![c] = "returned"]
  /\ jobs' = [jobs EXCEPT ![call[c].job] = Retired(@)]
  /\ UNCHANGED <<meshes_, next_handle_, stop_, jobs_queue_, jobs_mutex_, mesh_renderer_,
                 depth_filter_, renderBuf, filterBuf, wpc, wjob, pass, dpc, settledOut,
                 lastFilter, jobsLeft, tuning>>

\* a removeMesh that lowers min_handle_ without looking at the job's result
RemoveMeshReturn_Unchecked(c) ==
  /\ Waited(c, "remove")
  /\ min_handle_' = Min({call[c].arg, min_handle_})
  /\ pc' = [pc EXCEPT ![c] = "returned"]
  /\ settledOut' = settledOut \cup {call[c].arg}
  /\ meshes_mutex_' = FREE
  /\ call' = [call EXCEPT ![c].job = 0]
  /\ jobs' = [jobs EXCEPT ![call[c].job] = Retired(@)]
  /\ UNCHANGED <<meshes_, next_handle_, stop_, jobs_queue_, jobs_mutex_, mesh_renderer_,
                 depth_filter_, renderBuf, filterBuf, wpc, wjob, pass, dpc, settledIn,
                 lastFilter, jobsLeft, tuning>>

\* removeMesh, lines 204-209
RemoveMeshReturn(c) ==
  /\ Waited(c, "remove")
  /\ \E result \in JobResults(jobs[call[c].job]) :
       IF ~result
         THEN /\ pc' = [pc EXCEPT ![c] = "threw"]
              /\ UNCHANGED <<min_handle_, settledOut>>
         ELSE /\ min_handle_' = Min({call[c].arg, min_handle_})
              /\ pc' = [pc EXCEPT ![c] = "returned"]
              /\ settledOut' = settledOut \cup {call[c].arg}
  /\ meshes_mutex_' = FREE
  /\ call' = [call EXCEPT ![c].job = 0]
  /\ jobs' = [jobs EXCEPT ![call[c].job] = Retired(@)]
  /\ UNCHANGED <<meshes_, next_handle_, stop_, jobs_queue_, jobs_mutex_, mesh_renderer_,
                 depth_filter_, renderBuf, filterBuf, wpc, wjob, pass, dpc, settledIn,
                 lastFilter, jobsLeft, tuning>>

\* a filter that runs the job in the calling thread instead of waiting for it
FilterWait_Inline(c) ==
  /\ pc[c] = "wait" /\ call[c].op = "filter"
  /\ ~jobs[call[c].job].done
  /\ jobs' = [jobs EXCEPT ![call[c].job].st = "running"]
  /\ pc' = [pc EXCEPT ![c] = "returned"]
  /\ UNCHANGED <<meshes_, next_handle_, min_handle_, stop_, jobs_queue_, jobs_mutex_,
                 meshes_mutex_, mesh_renderer_, depth_filter_, renderBuf, filterBuf, wpc,
                 wjob, pass, dpc, call, settledIn, settledOut, lastFilter, jobsLeft, tuning>>

\* filter, lines 306-307: wait for the job when asked to
FilterWait(c) ==
  /\ Waited(c, "filter")
  /\ pc' = [pc EXCEPT ![c] = "returned"]
  /\ call' = [call EXCEPT ![c].job = 0]
  /\ jobs' = [jobs EXCEPT ![call[c].job] = Retired(@)]
  /\ UNCHANGED <<meshes_, next_handle_, min_handle_, stop_, jobs_queue_, jobs_mutex_,
                 meshes_mutex_, mesh_renderer_, depth_filter_, renderBuf, filterBuf, wpc,
                 wjob, pass, dpc, settledIn, settledOut, lastFilter, jobsLeft, tuning>>

\* getModelLabels, line 227: the labels array now holds what the job copied
GetModelLabelsReturn(c) ==
  /\ Waited(c, "labels")
  /\ pc' = [pc EXCEPT ![c] = "returned"]
  /\ call' = [call EXCEPT ![c].job = 0, ![c].buf = jobs[call[c].job].data]
  /\ lastFilter' = [lastFilter EXCEPT ![c] = 0]
  /\ jobs' = [jobs EXCEPT ![call[c].job] = Retired(@)]
  /\ UNCHANGED <<meshes_, next_handle_, min_handle_, stop_, jobs_queue_, jobs_mutex_,
                 meshes_mutex_, mesh_renderer_, depth_filter_, renderBuf, filterBuf, wpc,
                 wjob, pass, dpc, settledIn, settledOut, jobsLeft, tuning>>

\* getFilteredLabels, line 266
GetFilteredLabelsReturn(c) ==
  /\ Waited(c, "flabels")
  /\ pc' = [pc EXCEPT ![c] = "returned"]
  /\ call' = [call EXCEPT ![c].job = 0, ![c].buf = jobs[call[c].job].data]
  /\ jobs' = [jobs EXCEPT ![call[c].job] = Retired(@)]
  /\ UNCHANGED <<meshes_, next_handle_, min_handle_, stop_, jobs_queue_, jobs_mutex_,
                 meshes_mutex_, mesh_renderer_, depth_filter_, renderBuf, filterBuf, wpc,
                 wjob, pass, dpc, settledIn, settledOut, lastFilter, jobsLeft, tuning>>

\* getModelDepth, line 242, getFilteredDepth, line 257: job1->wait()
DepthWaitFirst(c) ==
  /\ pc[c] = "wait" /\ call[c].op \in {"mdepth", "fdepth"}
  /\ jobs[call[c].job].done
  /\ pc' = [pc EXCEPT ![c] = "wait2"]
  /\ UNCHANGED <<meshes_, next_handle_, min_handle_, stop_, jobs_queue_, jobs_mutex_,
                 meshes_mutex_, mesh_renderer_, depth_filter_, renderBuf, filterBuf, jobs,
                 wpc, wjob, pass, dpc, call, settledIn, settledOut, lastFilter, jobsLeft,
                 tuning>>

\* getModelDepth, line 243, getFilteredDepth, line 258: job2->wait() and return
DepthReturn(c) ==
  /\ pc[c] = "wait2"
  /\ jobs[call[c].job2].done
  /\ pc' = [pc EXCEPT ![c] = "returned"]
  /\ call' = [call EXCEPT ![c].job = 0, ![c].job2 = 0]
  /\ jobs' = [jobs EXCEPT ![call[c].job] = Retired(@), ![call[c].job2] = Retired(@)]
  /\ UNCHANGED <<meshes_, next_handle_, min_handle_, stop_, jobs_queue_, jobs_mutex_,
                 meshes_mutex_, mesh_renderer_, depth_filter_, renderBuf, filterBuf, wpc,
                 wjob, pass, dpc, settledIn, settledOut, lastFilter, jobsLeft, tuning>>

\* the caller takes the return value or the exception of its call
CallerFinish(c) ==
  /\ pc[c] \in {"returned", "threw"}
  /\ pc' = [pc EXCEPT ![c] = "idle"]
  /\ call' = [call EXCEPT ![c] = NoCall]
  /\ UNCHANGED <<meshes_, next_handle_, min_handle_, stop_, jobs_queue_, jobs_mutex_,
                 meshes_mutex_, mesh_renderer_, depth_filter_, renderBuf, filterBuf, jobs,
                 wpc, wjob, pass, dpc, settledIn, settledOut, lastFilter, jobsLeft, tuning>>

\* --------------------------------------------------------------- worker
\* run, line 274 and initialize, lines 80-82: mesh_renderer_ is created
WInitializeRenderer ==
  /\ wpc = "init"
  /\ mesh_renderer_' = NewRenderer
  /\ wpc' = "init_filter"
  /\ UNCHANGED <<jobsLeft, meshes_, next_handle_, min_handle_, stop_, jobs_queue_, jobs_mutex_,
                 meshes_mutex_, depth_filter_, renderBuf, filterBuf, jobs, wjob, pass, dpc,
                 pc, call, settledIn, settledOut, lastFilter, tuning>>

\* initialize, lines 83-120: depth_filter_ is created, then the texture name
\* (line 92) and the display list (lines 102-120), which only the worker uses
WInitializeFilter ==
  /\ wpc = "init_filter"
  /\ depth_filter_' = NewRenderer
  /\ sensor_depth_texture_' = NewTexture
  /\ canvas_' = TRUE
  /\ wpc' = "test"
  /\ UNCHANGED <<jobsLeft, meshes_, next_handle_, min_handle_, stop_, jobs_queue_, jobs_mutex_,
                 meshes_mutex_, mesh_renderer_, renderBuf, filterBuf, jobs, wjob, pass, dpc,
                 pc, call, settledIn, settledOut, lastFilter, callback, scalars,
                 sensor_parameters_, sensor_data>>

\* initialize, lines 75-121
WInitialize ==
  \/ WInitializeRenderer
  \/ WInitializeFilter

\* run, line 276: while (!stop_), read without jobs_mutex_
WTestStop ==
  /\ wpc = "test"
  /\ wpc' = IF stop_ THEN "deinit" ELSE "lock"
  /\ UNCHANGED <<jobsLeft, meshes_, next_handle_, min_handle_, stop_, jobs_queue_, jobs_mutex_,
                 meshes_mutex_, mesh_renderer_, depth_filter_, renderBuf, filterBuf, jobs,
                 wjob, pass, dpc, pc, call, settledIn, settledOut, lastFilter, tuning>>

\* run, line 278: lock jobs_mutex_
WLock ==
  /\ wpc = "lock"
  /\ jobs_mutex_ = FREE
  /\ jobs_mutex_' = WORKER
  /\ wpc' = "check"
  /\ UNCHANGED <<jobsLeft, meshes_, next_handle_, min_handle_, stop_, jobs_queue_, meshes_mutex_,
                 mesh_renderer_, depth_filter_, renderBuf, filterBuf, jobs, wjob, pass, dpc,
                 pc, call, settledIn, settledOut, lastFilter, tuning>>

\* run, lines 280-281: on an empty queue release the mutex and wait for a notify
WCheckEmpty ==
  /\ wpc = "check"
  /\ IF jobs_queue_ = <<>>
       THEN jobs_mutex_' = FREE /\ wpc' = "waiting"
       ELSE wpc' = "pop" /\ UNCHANGED jobs_mutex_
  /\ UNCHANGED <<jobsLeft, meshes_, next_handle_, min_handle_, stop_, jobs_queue_, meshes_mutex_,
                 mesh_renderer_, depth_filter_, renderBuf, filterBuf, jobs, wjob, pass, dpc,
                 pc, call, settledIn, settledOut, lastFilter, tuning>>

\* run, line 281: a notified wait returns after taking the mutex again
WWake ==
  /\ wpc = "woken"
  /\ jobs_mutex_ = FREE
  /\ jobs_mutex_' = WORKER
  /\ wpc' = "pop"
  /\ UNCHANGED <<jobsLeft, meshes_, next_handle_, min_handle_, stop_, jobs_queue_, meshes_mutex_,
                 mesh_renderer_, depth_filter_, renderBuf, filterBuf, jobs, wjob, pass, dpc,
                 pc, call, settledIn, settledOut, lastFilter, tuning>>

\* a queue served from its back
Dequeue_Back(q) == [job |-> q[Len(q)], rest |-> SubSeq(q, 1, Len(q) - 1)]

\* run, lines 285-286: jobs_queue_.front() and jobs_queue_.pop()
Dequeue(q) == [job |-> Head(q), rest |-> Tail(q)]

\* a worker that keeps jobs_mutex_ while the job executes
WPop_KeepLock ==
  /\ wpc = "pop"
  /\ IF jobs_queue_ # <<>>
       THEN /\ wjob' = Dequeue(jobs_queue_).job
            /\ jobs_queue_' = Dequeue(jobs_queue_).rest
            /\ wpc' = "exec"
       ELSE /\ wpc' = "unlock"
            /\ UNCHANGED <<wjob, jobs_queue_>>
  /\ UNCHANGED <<jobsLeft, meshes_, next_handle_, min_handle_, stop_, meshes_mutex_, mesh_renderer_,
                 depth_filter_, renderBuf, filterBuf, jobs, pass, dpc, pc, call,
                 settledIn, settledOut, lastFilter, jobs_mutex_, tuning>>

\* run, lines 283-287: take the job at the front and unlock
WPop ==
  /\ wpc = "pop"
  /\ IF jobs_queue_ # <<>>
       THEN /\ wjob' = Dequeue(jobs_queue_).job
            /\ jobs_queue_' = Dequeue(jobs_queue_).rest
            /\ jobs_mutex_' = FREE
            /\ wpc' = "exec"
       ELSE /\ wpc' = "unlock"
            /\ UNCHANGED <<wjob, jobs_queue_, jobs_mutex_>>
  /\ UNCHANGED <<jobsLeft, meshes_, next_handle_, min_handle_, stop_, meshes_mutex_, mesh_renderer_,
                 depth_filter_, renderBuf, filterBuf, jobs, pass, dpc, pc, call,
                 settledIn, settledOut, lastFilter, tuning>>

\* run, line 288, start of FilterJob::execute(): the payload runs unless done_
WExecBegin ==
  /\ wpc = "exec"
  /\ IF jobs[wjob].done
       THEN wpc' = "relock" /\ UNCHANGED jobs
       ELSE wpc' = "body" /\ jobs' = [jobs EXCEPT ![wjob].st = "running"]
  /\ UNCHANGED <<jobsLeft, meshes_, next_handle_, min_handle_, stop_, jobs_queue_, jobs_mutex_,
                 meshes_mutex_, mesh_renderer_, depth_filter_, renderBuf, filterBuf, wjob,
                 pass, dpc, pc, call, settledIn, settledOut, lastFilter, tuning>>

Running(kind) == wpc = "body" /\ jobs[wjob].kind = kind

\* addMeshHelper, line 195: meshes_[handle] = new GLMesh
AddMeshHelper(m, handle, mesh) == MapPut(m, handle, mesh)

\* the add-mesh job, line 176: addMeshHelper(next_handle_, mesh)
WRunAdd ==
  /\ Running("add")
  /\ meshes_' = AddMeshHelper(meshes_, next_handle_, wjob)
  /\ jobs' = [jobs EXCEPT ![wjob] = JobFinish(@, FALSE)]
  /\ wpc' = "relock"
  /\ UNCHANGED <<jobsLeft, next_handle_, min_handle_, stop_, jobs_queue_, jobs_mutex_, meshes_mutex_,
                 mesh_renderer_, depth_filter_, renderBuf, filterBuf, wjob, pass, dpc, pc,
                 call, settledIn, settledOut, lastFilter, tuning>>

\* a helper that reports success whether or not a mesh was erased
RemoveMeshHelper_AlwaysErased(m, handle) ==
  [meshes |-> MapErase(m, handle), erased |-> TRUE]

\* removeMeshHelper, lines 213-214: erase and report whether a mesh was erased
RemoveMeshHelper(m, handle) ==
  [meshes |-> MapErase(m, handle), erased |-> handle \in DOMAIN m]

\* the remove-mesh job, line 201
WRunRemove ==
  /\ Running("remove")
  /\ LET r == RemoveMeshHelper(meshes_, jobs[wjob].arg) IN
       /\ meshes_' = r.meshes
       /\ jobs' = [jobs EXCEPT ![wjob] = JobFinish(@, r.erased)]
  /\ wpc' = "relock"
  /\ UNCHANGED <<jobsLeft, next_handle_, min_handle_, stop_, jobs_queue_, jobs_mutex_, meshes_mutex_,
                 mesh_renderer_, depth_filter_, renderBuf, filterBuf, wjob, pass, dpc, pc,
                 call, settledIn, settledOut, lastFilter, tuning>>

\* the readback job of getModelLabels, line 225: renderer.getColorBuffer(labels);
\* a job that captured no renderer brings the worker down
WRunLabels ==
  /\ Running("labels")
  /\ IF jobs[wjob].ref = NULL
       THEN wpc' = "crashed" /\ UNCHANGED jobs
       ELSE /\ jobs' = [jobs EXCEPT ![wjob] = [JobFinish(@, FALSE) EXCEPT !.data = renderBuf]]
            /\ wpc' = "relock"
  /\ UNCHANGED <<jobsLeft, meshes_, next_handle_, min_handle_, stop_, jobs_queue_, jobs_mutex_,
                 meshes_mutex_, mesh_renderer_, depth_filter_, renderBuf, filterBuf, wjob,
                 pass, dpc, pc, call, settledIn, settledOut, lastFilter, tuning>>

\* doFilter, lines 312-325: take transform_callback_mutex_, begin the render
\* stage on cleared buffers
WFilterBegin ==
  /\ Running("filter")
  /\ transform_callback_mutex_ = FREE
  /\ transform_callback_mutex_' = WORKER
  /\ pass' = [NoPass EXCEPT !.todo = DOMAIN meshes_, !.unread = {"scale", "offset"}]
  /\ renderBuf' = [pass |-> wjob, labels |-> {}]
  /\ wpc' = "padding"
  /\ UNCHANGED <<jobsLeft, meshes_, next_handle_, min_handle_, stop_, jobs_queue_, jobs_mutex_,
                 meshes_mutex_, mesh_renderer_, depth_filter_, filterBuf, jobs, wjob, dpc,
                 pc, call, settledIn, settledOut, lastFilter, transform_callback_,
                 scalars, sensor>>

\* doFilter, line 327: padding_scale_ and padding_offset_ are two reads,
\* made without a lock and in an order the language does not fix; the
\* coefficients are uploaded (line 328) once both are read
ReadPadding(which, value) ==
  /\ wpc = "padding"
  /\ which \in pass.unread
  /\ pass' = [pass EXCEPT !.padding = IF which = "scale" THEN <<value, @[2]>>
                                                          ELSE <<@[1], value>>,
                          !.unread = @ \ {which}]
  /\ wpc' = IF pass.unread = {which} THEN "render" ELSE "padding"
  /\ UNCHANGED <<jobsLeft, meshes_, next_handle_, min_handle_, stop_, jobs_queue_, jobs_mutex_,
                 meshes_mutex_, mesh_renderer_, depth_filter_, renderBuf, filterBuf, jobs,
                 wjob, dpc, pc, call, settledIn, settledOut, lastFilter, tuning>>

WReadPaddingScale == ReadPadding("scale", padding_scale_)

WReadPaddingOffset == ReadPadding("offset", padding_offset_)

\* a loop body that renders the mesh whatever the callback returned
RenderIf_Always(hasPose) == TRUE

\* doFilter, line 333: the test that guards mesh.second->render(transform)
RenderIf(hasPose) == hasPose

\* doFilter, lines 331-335: next mesh in key order; transform_callback_ is
\* called for it and the mesh is rendered when the callback reports a pose
WRenderMesh ==
  /\ wpc = "render"
  /\ pass.todo # {}
  /\ LET h == Min(pass.todo) IN
       \E hasPose \in BOOLEAN :
         /\ pass' = [pass EXCEPT
                       !.todo = @ \ {h},
                       !.iter = @ \cup {h},
                       !.cbs = @ \cup {transform_callback_},
                       !.posed = IF hasPose THEN @ \cup {h} ELSE @,
                       !.rendered = IF RenderIf(hasPose) THEN @ \cup {h} ELSE @]
         /\ renderBuf' = IF RenderIf(hasPose) THEN [renderBuf EXCEPT !.labels = @ \cup {h}]
                                              ELSE renderBuf
  /\ UNCHANGED <<jobsLeft, meshes_, next_handle_, min_handle_, stop_, jobs_queue_, jobs_mutex_,
                 meshes_mutex_, mesh_renderer_, depth_filter_, filterBuf, jobs, wpc, wjob,
                 dpc, pc, call, settledIn, settledOut, lastFilter, tuning>>

\* a readback of the filtered labels that also clears them
WRunFilteredLabels_Clearing ==
  /\ Running("flabels")
  /\ jobs[wjob].ref # NULL
  /\ jobs' = [jobs EXCEPT ![wjob] =
                [JobFinish(@, FALSE) EXCEPT !.data = [pass |-> filterBuf.pass,
                                                      labels |-> filterBuf.labels]]]
  /\ filterBuf' = [filterBuf EXCEPT !.pass = 0]
  /\ wpc' = "relock"
  /\ UNCHANGED <<jobsLeft, meshes_, next_handle_, min_handle_, stop_, jobs_queue_, jobs_mutex_,
                 meshes_mutex_, mesh_renderer_, depth_filter_, renderBuf, wjob,
                 pass, dpc, pc, call, settledIn, settledOut, lastFilter, tuning>>

\* the readback job of getFilteredLabels, line 264: filter.getColorBuffer(labels)
WRunFilteredLabels ==
  /\ Running("flabels")
  /\ IF jobs[wjob].ref = NULL
       THEN wpc' = "crashed" /\ UNCHANGED jobs
       ELSE /\ jobs' = [jobs EXCEPT ![wjob] =
                         [JobFinish(@, FALSE) EXCEPT !.data = [pass |-> filterBuf.pass,
                                                               labels |-> filterBuf.labels]]]
            /\ wpc' = "relock"
  /\ UNCHANGED <<jobsLeft, meshes_, next_handle_, min_handle_, stop_, jobs_queue_, jobs_mutex_,
                 meshes_mutex_, mesh_renderer_, depth_filter_, renderBuf, filterBuf, wjob,
                 pass, dpc, pc, call, settledIn, settledOut, lastFilter, tuning>>

\* GLRenderer::getDepthBuffer: the depth image of the buffers, not yet metric
GetDepthBuffer(buf) == [pass |-> buf.pass, labels |-> buf.labels, metric |-> <<>>]

\* the first job of getModelDepth, line 233, and of getFilteredDepth, line 248:
\* getDepthBuffer(depth) writes the caller's array
WRunDepth ==
  /\ wpc = "body" /\ jobs[wjob].kind \in {"mdepth", "fdepth"}
  /\ IF jobs[wjob].ref = NULL
       THEN wpc' = "crashed" /\ UNCHANGED <<jobs, call>>
       ELSE /\ call' = [call EXCEPT ![jobs[wjob].owner].depth =
                          GetDepthBuffer(IF jobs[wjob].kind = "mdepth" THEN renderBuf
                                                                       ELSE filterBuf)]
            /\ jobs' = [jobs EXCEPT ![wjob] = JobFinish(@, FALSE)]
            /\ wpc' = "relock"
  /\ UNCHANGED <<jobsLeft, meshes_, next_handle_, min_handle_, stop_, jobs_queue_, jobs_mutex_,
                 meshes_mutex_, mesh_renderer_, depth_filter_, renderBuf, filterBuf, wjob,
                 pass, dpc, pc, settledIn, settledOut, lastFilter, tuning>>

\* SensorModel::Parameters::transformModelDepthToMetricDepth and
\* transformFilteredDepthToMetricDepth: the array is converted in place
ToMetric(depth, kind) == [depth EXCEPT !.metric = Append(@, kind)]

\* the second job of getModelDepth, line 235, and of getFilteredDepth, line 250
WRunMetric ==
  /\ wpc = "body" /\ jobs[wjob].kind \in {"mmetric", "fmetric"}
  /\ call' = [call EXCEPT ![jobs[wjob].owner].depth = ToMetric(@, jobs[wjob].kind)]
  /\ jobs' = [jobs EXCEPT ![wjob] = JobFinish(@, FALSE)]
  /\ wpc' = "relock"
  /\ UNCHANGED <<jobsLeft, meshes_, next_handle_, min_handle_, stop_, jobs_queue_, jobs_mutex_,
                 meshes_mutex_, mesh_renderer_, depth_filter_, renderBuf, filterBuf, wjob,
                 pass, dpc, pc, settledIn, settledOut, lastFilter, tuning>>

\* doFilter, lines 362-363: scale = 1.0 / (far - near)
Scale(parameters) == RInv(RSub(parameters.far, parameters.near))

\* a 16-bit frame transferred with the scale of a float frame
DepthScale_Unscaled(encoding, scale) == scale

\* doFilter, lines 365-377: the value given to GL_DEPTH_SCALE
DepthScale(encoding, scale) ==
  IF encoding = GL_UNSIGNED_SHORT THEN RMul(scale, Rat(USHRT_MAX, MM_PER_M))
                                  ELSE scale

\* doFilter, line 378: the value given to GL_DEPTH_BIAS
DepthBias(scale, parameters) == RNeg(RMul(scale, parameters.near))

\* glTexImage2D, line 380: a sample of an unsigned 16-bit frame is read as
\* sample / 65535, a float sample as it is; the pixel transfer multiplies by
\* GL_DEPTH_SCALE, adds GL_DEPTH_BIAS and clamps the depth component to [0, 1]
Unpacked(encoding, sample) ==
  IF encoding = GL_UNSIGNED_SHORT THEN Rat(sample, USHRT_MAX) ELSE Rat(sample, 1)

Clamped(x) ==
  Only({IF RLess(v, Rat(0, 1)) THEN Rat(0, 1)
        ELSE IF RLess(Rat(1, 1), v) THEN Rat(1, 1) ELSE v : v \in {x}})

PixelTransfer(x, depth_scale, depth_bias) == RAdd(RMul(x, depth_scale), depth_bias)

TexImage2D(encoding, sample, depth_scale, depth_bias) ==
  Clamped(PixelTransfer(Unpacked(encoding, sample), depth_scale, depth_bias))

\* doFilter, lines 362-381: the depth that the frame's sample becomes in
\* sensor_depth_texture_
UploadedDepth(encoding, sample, parameters) ==
  Only({TexImage2D(encoding, sample, DepthScale(encoding, scale), DepthBias(scale, parameters)) :
        scale \in {Scale(parameters)}})

\* doFilter, lines 337-395: the filter stage on the sensor frame with the
\* shadow threshold read at line 353 and the frame uploaded at line 380
WFilterPass ==
  /\ wpc = "render"
  /\ pass.todo = {}
  /\ sensor_depth_texture_' =
       [exists |-> TRUE,
        depth |-> UploadedDepth(jobs[wjob].arg, sensor_data, sensor_parameters_)]
  /\ filterBuf' = [pass |-> wjob, enc |-> jobs[wjob].arg, labels |-> renderBuf.labels,
                   threshold |-> shadow_threshold_, padding |-> pass.padding]
  /\ pass' = NoPass
  /\ wpc' = "filtered"
  /\ UNCHANGED <<jobsLeft, meshes_, next_handle_, min_handle_, stop_, jobs_queue_, jobs_mutex_,
                 meshes_mutex_, mesh_renderer_, depth_filter_, renderBuf, jobs, wjob, dpc, pc,
                 call, settledIn, settledOut, lastFilter, callback, scalars,
                 sensor_parameters_, sensor_data, canvas_>>

\* doFilter, line 396: transform_callback_mutex_ is released on return
WFilterEnd ==
  /\ wpc = "filtered"
  /\ transform_callback_mutex_' = FREE
  /\ wpc' = "finish"
  /\ UNCHANGED <<jobsLeft, meshes_, next_handle_, min_handle_, stop_, jobs_queue_, jobs_mutex_,
                 meshes_mutex_, mesh_renderer_, depth_filter_, renderBuf, filterBuf, jobs,
                 wjob, pass, dpc, pc, call, settledIn, settledOut, lastFilter,
                 transform_callback_, scalars, sensor>>

\* the end of FilterJob::execute() for the filter job: done_ = true
WFilterDone ==
  /\ wpc = "finish"
  /\ jobs' = [jobs EXCEPT ![wjob] = JobFinish(@, FALSE)]
  /\ wpc' = "relock"
  /\ UNCHANGED <<jobsLeft, meshes_, next_handle_, min_handle_, stop_, jobs_queue_, jobs_mutex_,
                 meshes_mutex_, mesh_renderer_, depth_filter_, renderBuf, filterBuf, wjob,
                 pass, dpc, pc, call, settledIn, settledOut, lastFilter, tuning>>

\* run, lines 289-290: lock.lock() after the job; the worker's JobPtr goes
\* out of scope
WRelock ==
  /\ wpc = "relock"
  /\ jobs_mutex_ = FREE
  /\ jobs_mutex_' = WORKER
  /\ wpc' = "unlock"
  /\ jobs' = IF Held(wjob) THEN jobs ELSE [jobs EXCEPT ![wjob] = Retired(@)]
  /\ UNCHANGED <<jobsLeft, meshes_, next_handle_, min_handle_, stop_, jobs_queue_, meshes_mutex_,
                 mesh_renderer_, depth_filter_, renderBuf, filterBuf, wjob, pass, dpc,
                 pc, call, settledIn, settledOut, lastFilter, tuning>>

\* run, line 291: the lock goes out of scope at the end of the loop body
WUnlock ==
  /\ wpc = "unlock"
  /\ jobs_mutex_' = FREE
  /\ wjob' = 0
  /\ wpc' = "test"
  /\ UNCHANGED <<jobsLeft, meshes_, next_handle_, min_handle_, stop_, jobs_queue_, meshes_mutex_,
                 mesh_renderer_, depth_filter_, renderBuf, filterBuf, jobs, pass, dpc, pc,
                 call, settledIn, settledOut, lastFilter, tuning>>

\* run, line 292 and deInitialize, line 149: glDeleteLists(canvas_, 1)
WDeleteLists ==
  /\ wpc = "deinit"
  /\ canvas_' = FALSE
  /\ wpc' = "deinit_texture"
  /\ UNCHANGED <<meshes_, mesh_renderer_, depth_filter_, renderBuf, filterBuf,
                 sensor_depth_texture_>>
  /\ UNCHANGED <<jobsLeft, next_handle_, min_handle_, stop_, jobs_queue_, jobs_mutex_,
                 meshes_mutex_, jobs, wjob, pass, dpc, pc, call, settledIn, settledOut,
                 lastFilter, callback, scalars, sensor_parameters_, sensor_data>>

\* deInitialize, line 150: glDeleteTextures(1, &sensor_depth_texture_)
WDeleteTextures ==
  /\ wpc = "deinit_texture"
  /\ sensor_depth_texture_' = NoTexture
  /\ wpc' = "deinit_meshes"
  /\ UNCHANGED <<meshes_, mesh_renderer_, depth_filter_, renderBuf, filterBuf, canvas_>>
  /\ UNCHANGED <<jobsLeft, next_handle_, min_handle_, stop_, jobs_queue_, jobs_mutex_,
                 meshes_mutex_, jobs, wjob, pass, dpc, pc, call, settledIn, settledOut,
                 lastFilter, callback, scalars, sensor_parameters_, sensor_data>>

\* deInitialize, line 152: meshes_.clear(), without meshes_mutex_
WClearMeshes ==
  /\ wpc = "deinit_meshes"
  /\ meshes_' = NoMeshes
  /\ wpc' = "deinit_renderer"
  /\ UNCHANGED <<mesh_renderer_, depth_filter_, renderBuf, filterBuf, canvas_,
                 sensor_depth_texture_>>
  /\ UNCHANGED <<jobsLeft, next_handle_, min_handle_, stop_, jobs_queue_, jobs_mutex_,
                 meshes_mutex_, jobs, wjob, pass, dpc, pc, call, settledIn, settledOut,
                 lastFilter, callback, scalars, sensor_parameters_, sensor_data>>

\* deInitialize, line 153: mesh_renderer_.reset() destroys the renderer of
\* the render stage with its buffers
WResetRenderer ==
  /\ wpc = "deinit_renderer"
  /\ mesh_renderer_' = NoRenderer
  /\ renderBuf' = NoBuf
  /\ wpc' = "deinit_filter"
  /\ UNCHANGED <<meshes_, depth_filter_, filterBuf, canvas_, sensor_depth_texture_>>
  /\ UNCHANGED <<jobsLeft, next_handle_, min_handle_, stop_, jobs_queue_, jobs_mutex_,
                 meshes_mutex_, jobs, wjob, pass, dpc, pc, call, settledIn, settledOut,
                 lastFilter, callback, scalars, sensor_parameters_, sensor_data>>

\* deInitialize, line 154: depth_filter_.reset() destroys the renderer of
\* the filter stage with its buffers; run() returns
WResetFilter ==
  /\ wpc = "deinit_filter"
  /\ depth_filter_' = NoRenderer
  /\ filterBuf' = NoFilterBuf
  /\ wpc' = "done"
  /\ UNCHANGED <<meshes_, mesh_renderer_, renderBuf, canvas_, sensor_depth_texture_>>
  /\ UNCHANGED <<jobsLeft, next_handle_, min_handle_, stop_, jobs_queue_, jobs_mutex_,
                 meshes_mutex_, jobs, wjob, pass, dpc, pc, call, settledIn, settledOut,
                 lastFilter, callback, scalars, sensor_parameters_, sensor_data>>

\* deInitialize, lines 147-155
WDeInitialize ==
  \/ WDeleteLists
  \/ WDeleteTextures
  \/ WClearMeshes
  \/ WResetRenderer
  \/ WResetFilter

\* ----------------------------------------------------------- destructor
QueuedJobs(q) == {q[i] : i \in DOMAIN q}

\* a drain that pops the jobs without cancelling them
DtorDrain_PopOnly(js, q) == js

\* ~MeshFilterBase, line 130: jobs_queue_.front()->cancel()
DtorDrain(js, q) ==
  [i \in DOMAIN js |->
     IF i = Head(q)
       THEN IF Held(i) THEN JobCancel(js[i]) ELSE Retired(JobCancel(js[i]))
       ELSE js[i]]

\* ~MeshFilterBase, lines 126-127: take jobs_mutex_ and set stop_, which the
\* worker reads without the mutex
DtorStop ==
  /\ dpc = "idle"
  /\ jobs_mutex_ = FREE
  /\ jobs_mutex_' = DTOR
  /\ stop_' = TRUE
  /\ dpc' = "drain"
  /\ UNCHANGED <<jobsLeft, meshes_, next_handle_, min_handle_, jobs_queue_, meshes_mutex_,
                 mesh_renderer_, depth_filter_, renderBuf, filterBuf, jobs, wpc, wjob, pass,
                 pc, call, settledIn, settledOut, lastFilter, tuning>>

\* ~MeshFilterBase, lines 128-132: one turn of the loop cancels and pops the
\* job at the front
DtorCancel ==
  /\ dpc = "drain"
  /\ jobs_queue_ # <<>>
  /\ jobs' = DtorDrain(jobs, jobs_queue_)
  /\ jobs_queue_' = Tail(jobs_queue_)
  /\ UNCHANGED <<jobsLeft, meshes_, next_handle_, min_handle_, stop_, jobs_mutex_,
                 meshes_mutex_, mesh_renderer_, depth_filter_, renderBuf, filterBuf, wpc,
                 wjob, pass, dpc, pc, call, settledIn, settledOut, lastFilter, tuning>>

\* ~MeshFilterBase, lines 128 and 133: the queue is empty, jobs_mutex_ is released
DtorUnlock ==
  /\ dpc = "drain"
  /\ jobs_queue_ = <<>>
  /\ jobs_mutex_' = FREE
  /\ dpc' = "notify"
  /\ UNCHANGED <<jobsLeft, meshes_, next_handle_, min_handle_, stop_, jobs_queue_,
                 meshes_mutex_, mesh_renderer_, depth_filter_, renderBuf, filterBuf, jobs,
                 wpc, wjob, pass, pc, call, settledIn, settledOut, lastFilter, tuning>>

\* ~MeshFilterBase, lines 125-133
DtorShutdown ==
  \/ DtorStop
  \/ DtorCancel
  \/ DtorUnlock

\* a destructor that releases the render targets itself before it joins
DtorNotify_Release ==
  /\ dpc = "notify"
  /\ wpc' = NotifiedWorker
  /\ dpc' = "join"
  /\ meshes_' = NoMeshes
  /\ mesh_renderer_' = NoRenderer
  /\ depth_filter_' = NoRenderer
  /\ UNCHANGED <<jobsLeft, next_handle_, min_handle_, stop_, jobs_queue_, jobs_mutex_,
                 meshes_mutex_, renderBuf, filterBuf, jobs,
                 wjob, pass, pc, call, settledIn, settledOut, lastFilter, tuning>>

\* ~MeshFilterBase, line 134: notify_one
DtorNotify ==
  /\ dpc = "notify"
  /\ wpc' = NotifiedWorker
  /\ dpc' = "join"
  /\ UNCHANGED <<jobsLeft, meshes_, next_handle_, min_handle_, stop_, jobs_queue_, jobs_mutex_,
                 meshes_mutex_, mesh_renderer_, depth_filter_, renderBuf, filterBuf, jobs,
                 wjob, pass, pc, call, settledIn, settledOut, lastFilter, tuning>>

\* ~MeshFilterBase, line 135: join returns when run() has returned
DtorJoin ==
  /\ dpc = "join"
  /\ wpc = "done"
  /\ dpc' = "joined"
  /\ UNCHANGED <<jobsLeft, meshes_, next_handle_, min_handle_, stop_, jobs_queue_, jobs_mutex_,
                 meshes_mutex_, mesh_renderer_, depth_filter_, renderBuf, filterBuf, jobs,
                 wpc, wjob, pass, pc, call, settledIn, settledOut, lastFilter, tuning>>

\* -------------------------------------------------------- specification
\* steps inside addJob, shared by every call that submits a job
Submit(c) ==
  \/ AddJobPush(c)
  \/ AddJobNotify(c)

\* addMesh after its entry, lines 174-191
AddMeshSteps(c) ==
  \/ AddMeshLock(c)
  \/ AddMeshScanBegin(c)
  \/ AddMeshScan(c)
  \/ AddMeshReturn(c)

\* addMesh and removeMesh
MeshCalls(c) ==
  \/ AddMeshCall(c)
  \/ \E handle \in RemoveArgs : RemoveMeshCall(c, handle)
  \/ AddMeshSteps(c)
  \/ RemoveMeshLock(c)
  \/ RemoveMeshReturn(c)

\* filter and getModelLabels
FilterCalls(c) ==
  \/ \E type \in Encodings, wait \in BOOLEAN : FilterCall(c, type, wait)
  \/ FilterWait(c)
  \/ GetModelLabelsCall(c)
  \/ GetModelLabelsReturn(c)

\* initialize and the run loop around job->execute()
RunLoop ==
  \/ WInitialize
  \/ WTestStop
  \/ WLock
  \/ WCheckEmpty
  \/ WWake
  \/ WPop
  \/ WExecBegin
  \/ WRelock
  \/ WUnlock

\* the run loop up to and including the execution of mesh jobs
WorkerLoop ==
  \/ RunLoop
  \/ WRunAdd
  \/ WRunRemove

\* doFilter
WorkerPass ==
  \/ WFilterBegin
  \/ WReadPaddingScale
  \/ WReadPaddingOffset
  \/ WRenderMesh
  \/ WFilterPass
  \/ WFilterEnd
  \/ WFilterDone

\* execution of the readback jobs
WorkerRead ==
  \/ WRunLabels
  \/ WRunFilteredLabels
  \/ WRunDepth
  \/ WRunMetric

\* the four readback calls
ReadCalls(c) ==
  \/ GetModelLabelsCall(c)
  \/ GetModelLabelsReturn(c)
  \/ GetFilteredLabelsCall(c)
  \/ GetFilteredLabelsReturn(c)
  \/ GetModelDepthCall(c)
  \/ GetFilteredDepthCall(c)
  \/ PushTwo(c)
  \/ DepthWaitFirst(c)
  \/ DepthReturn(c)

\* the worker thread: run loop, readback job, doFilter, deInitialize
Worker ==
  \/ WorkerLoop
  \/ WRunLabels
  \/ WorkerPass
  \/ WDeInitialize

Destructor ==
  \/ DtorShutdown
  \/ DtorNotify
  \/ DtorJoin

\* every step of a call after its entry
CallerStep(c) ==
  \/ Submit(c)
  \/ AddMeshSteps(c)
  \/ RemoveMeshLock(c)
  \/ RemoveMeshReturn(c)
  \/ FilterWait(c)
  \/ GetModelLabelsReturn(c)
  \/ CallerFinish(c)

\* the filter in use and its destruction: mesh, filter and readback calls
\* from the callers, the worker, the destructor
Next ==
  \/ \E c \in Callers : Submit(c)
  \/ \E c \in Callers : MeshCalls(c)
  \/ \E c \in Callers : FilterCalls(c)
  \/ \E c \in Callers : CallerFinish(c)
  \/ Worker
  \/ Destructor

Spec == Init /\ [][Next]_vars

\* every thread that can take a step eventually takes one; starting a new
\* public call or the destructor is the environment's choice and is not forced
FairSpec ==
  /\ Spec
  /\ WF_vars(Worker)
  /\ WF_vars(DtorCancel \/ DtorUnlock \/ DtorNotify \/ DtorJoin)
  /\ \A c \in Callers : WF_vars(CallerStep(c))

\* the same with callers that also resize
NextResize ==
  \/ Next
  \/ \E c \in Callers, size \in ResizeArgs : SetSizeRenderer(c, size)
  \/ \E c \in Callers : SetCameraRenderer(c)
  \/ \E c \in Callers : SetSizeFilter(c)
  \/ \E c \in Callers : SetCameraFilter(c)

SpecResize == Init /\ [][NextResize]_vars

\* a filter that is not destroyed: mesh, filter and readback calls
InitLive == Constructed /\ DefaultSensor /\ jobsLeft = MaxLiveJobs

NextLive ==
  \/ \E c \in Callers : Submit(c)
  \/ \E c \in Callers : MeshCalls(c)
  \/ \E c \in Callers : FilterCalls(c)
  \/ \E c \in Callers : CallerFinish(c)
  \/ WorkerLoop
  \/ WRunLabels
  \/ WorkerPass

SpecLive == InitLive /\ [][NextLive]_vars

\* a filter that is not destroyed, with callers that only add and remove meshes
InitAlloc == Constructed /\ DefaultSensor /\ jobsLeft = MaxAllocJobs

NextAlloc ==
  \/ \E c \in Callers : Submit(c)
  \/ \E c \in Callers : MeshCalls(c)
  \/ \E c \in Callers : CallerFinish(c)
  \/ WorkerLoop

SpecAlloc == InitAlloc /\ [][NextAlloc]_vars

\* a filter that is not destroyed, with callers that add and remove meshes,
\* submit frames and replace the transform callback
InitPass == Constructed /\ DefaultSensor /\ jobsLeft = MaxPassJobs

NextPass ==
  \/ \E c \in Callers : Submit(c)
  \/ \E c \in Callers : MeshCalls(c)
  \/ \E c \in Callers, wait \in BOOLEAN : FilterCall(c, GL_FLOAT, wait)
  \/ \E c \in Callers : FilterWait(c)
  \/ \E c \in Callers, cb \in Callbacks : SetTransformCallbackCall(c, cb)
  \/ \E c \in Callers : SetTransformCallback(c)
  \/ \E c \in Callers : CallerFinish(c)
  \/ WorkerLoop
  \/ WFilterBegin
  \/ WReadPaddingScale
  \/ WReadPaddingOffset
  \/ WRenderMesh
  \/ WFilterPass
  \/ WFilterEnd
  \/ WFilterDone

SpecPass == InitPass /\ [][NextPass]_vars

\* a filter that is not destroyed, with callers that add and remove meshes,
\* submit frames and set the tunable scalars
InitTune == Constructed /\ DefaultSensor /\ jobsLeft = MaxTuneJobs

NextTune ==
  \/ \E c \in Callers : Submit(c)
  \/ \E c \in Callers : MeshCalls(c)
  \/ \E c \in Callers, wait \in BOOLEAN : FilterCall(c, GL_FLOAT, wait)
  \/ \E c \in Callers : FilterWait(c)
  \/ \E c \in Callers, threshold \in Thresholds : SetShadowThreshold(c, threshold)
  \/ \E c \in Callers, offset \in PaddingOffsets : SetPaddingOffset(c, offset)
  \/ \E c \in Callers, scale \in PaddingScales : SetPaddingScale(c, scale)
  \/ \E c \in Callers : StoreScalar(c)
  \/ \E c \in Callers : CallerFinish(c)
  \/ WorkerLoop
  \/ WFilterBegin
  \/ WReadPaddingScale
  \/ WReadPaddingOffset
  \/ WRenderMesh
  \/ WFilterPass
  \/ WFilterEnd
  \/ WFilterDone

SpecTune == InitTune /\ [][NextTune]_vars

\* a filter that is not destroyed, with callers that add meshes, submit
\* frames and read the buffers back
InitRead == Constructed /\ DefaultSensor /\ jobsLeft = MaxReadJobs

NextRead ==
  \/ \E c \in Callers : Submit(c)
  \/ \E c \in Callers : AddMeshCall(c)
  \/ \E c \in Callers : AddMeshSteps(c)
  \/ \E c \in Callers : FilterCall(c, GL_FLOAT, FALSE)
  \/ \E c \in Callers : ReadCalls(c)
  \/ \E c \in Callers : CallerFinish(c)
  \/ RunLoop
  \/ WRunAdd
  \/ WorkerPass
  \/ WorkerRead

SpecRead == InitRead /\ [][NextRead]_vars

\* one frame of a sensor whose clipping planes and whose sample are any of
\* Nears, Fars and Samples, submitted in either encoding
InitEncode ==
  /\ Constructed
  /\ jobsLeft = MaxEncodeJobs
  /\ \E near \in Nears, far \in Fars, sample \in Samples : Sensor(near, far, sample)

NextEncode ==
  \/ \E c \in Callers : Submit(c)
  \/ \E c \in Callers, type \in {GL_FLOAT, GL_UNSIGNED_SHORT} : FilterCall(c, type, TRUE)
  \/ \E c \in Callers : FilterWait(c)
  \/ \E c \in Callers : CallerFinish(c)
  \/ RunLoop
  \/ WFilterBegin
  \/ WReadPaddingScale
  \/ WReadPaddingOffset
  \/ WFilterPass
  \/ WFilterEnd
  \/ WFilterDone

SpecEncode == InitEncode /\ [][NextEncode]_vars

\* a filter that is not destroyed, with callers that add meshes and submit
\* frames, every thread being scheduled again and again
InitFair == Constructed /\ DefaultSensor /\ jobsLeft = MaxFairJobs

NextFair ==
  \/ \E c \in Callers : Submit(c)
  \/ \E c \in Callers : AddMeshCall(c)
  \/ \E c \in Callers : AddMeshSteps(c)
  \/ \E c \in Callers, wait \in BOOLEAN : FilterCall(c, GL_FLOAT, wait)
  \/ \E c \in Callers : FilterWait(c)
  \/ \E c \in Callers : CallerFinish(c)
  \/ RunLoop
  \/ WRunAdd
  \/ WorkerPass

\* the worker and every call in progress take their next step when they can;
\* starting a new call is the caller's choice
FairLive ==
  /\ InitFair /\ [][NextFair]_vars
  /\ WF_vars(RunLoop \/ WRunAdd \/ WorkerPass)
  /\ \A c \in Callers : WF_vars(CallerStep(c))

\* a filter that is not destroyed, with callers that add meshes and remove
\* handles, reserved ones included
InitLabel == Constructed /\ DefaultSensor /\ jobsLeft = MaxLabelJobs

NextLabel ==
  \/ \E c \in Callers : Submit(c)
  \/ \E c \in Callers : AddMeshCall(c)
  \/ \E c \in Callers, handle \in ReservedArgs \cup RemoveArgs : RemoveMeshCall(c, handle)
  \/ \E c \in Callers : AddMeshSteps(c)
  \/ \E c \in Callers : RemoveMeshLock(c)
  \/ \E c \in Callers : RemoveMeshReturn(c)
  \/ \E c \in Callers : CallerFinish(c)
  \/ WorkerLoop

SpecLabel == InitLabel /\ [][NextLabel]_vars

\* the same callers on a filter that is destroyed: the worker's deInitialize
\* and the destructor run beside the mesh calls
SpecTeardown == InitLabel /\ [][NextLabel \/ WDeInitialize \/ Destructor]_vars

\* ---------------------------------------------------------------- claims
JobIds == DOMAIN jobs
Executed(j) == jobs[j].st \in {"running", "completed"}
Ended(j) == jobs[j].st \in {"completed", "cancelled"}
\* the step in which caller c's call op returns or throws: removeMesh from its
\* wait (lines 204-209), addMesh from the end of its scan (lines 189-191)
ReturnsFrom(c, op) ==
  /\ pc[c] \in {"wait", "scan_end"} /\ pc'[c] \in {"returned", "threw"}
  /\ call[c].op = op

\* a thread has stopped on a renderer that does not exist
Crashed == wpc = "crashed" \/ \E c \in Callers : pc[c] = "crashed"

\* smallest handle >= FIRST_LABEL that is not a key of the registry
SmallestFree(keys) ==
  Min({i \in FIRST_LABEL .. (FIRST_LABEL + Cardinality(keys)) : i \notin keys})

\* C1: every addMesh returns the smallest handle >= FIRST_LABEL that was not
\* registered at the moment of the call (so add, add, remove(h1), add returns
\* h1 again).
C1_AddReturnsSmallestFree ==
  \A c \in Callers :
    (pc[c] = "returned" /\ call[c].op = "add")
      => call[c].ret = SmallestFree(DOMAIN call[c].seen.meshes)

\* C2: an add-mesh job never overwrites a live registry entry: a handle that
\* stays registered keeps the mesh it was registered with, whatever the order
\* and the interleaving of the addMesh and removeMesh calls.
C2_NoLiveHandleOverwritten ==
  [][\A h \in DOMAIN meshes_ : h \in DOMAIN meshes_' => meshes_'[h] = meshes_[h]]_vars

\* C2 witness: an add-mesh job runs on a registry with meshes, below a
\* next_handle_ that a removal has left above min_handle_
C2_Witness ==
  /\ Running("add")
  /\ DOMAIN meshes_ # {}
  /\ min_handle_ < next_handle_

\* C3: jobs are executed in the order of their push: when a job is being or has
\* been executed, every job pushed before it has ended.
C3_FifoExecution ==
  \A i, j \in JobIds : (i < j /\ Executed(j)) => Ended(i)

\* C3 witness: the second job runs after the first has completed, the caller of
\* the first not having returned yet
C3_Witness ==
  /\ Len(jobs) >= 2
  /\ jobs[1].st = "completed" /\ Held(1)
  /\ jobs[2].st = "running"

\* C4: at most one job is executing, and the worker is the thread executing it.
C4_OneJobAtATime ==
  /\ Cardinality({j \in JobIds : jobs[j].st = "running"}) <= 1
  /\ \A j \in JobIds :
       jobs[j].st = "running" =>
         (wjob = j /\ wpc \in {"body", "padding", "render", "filtered", "finish", "crashed"})

\* C4 witness: a filter pass is in its render loop while another job waits in the queue
C4_Witness ==
  /\ wpc = "render"
  /\ jobs[wjob].st = "running"
  /\ jobs_queue_ # <<>>

\* C5: the destructor's critical section cancels and removes every job of the
\* queue; a cancelled job stays cancelled (the worker never executes it); and a
\* caller waiting on a cancelled job can leave wait().
C5_ShutdownCancelsQueued ==
  /\ [](\A c \in Callers :
          (pc[c] = "wait" /\ jobs[call[c].job].st = "cancelled") => Waited(c, call[c].op))
  /\ [][/\ (dpc = "drain" \/ dpc' = "drain")
             => /\ QueuedJobs(jobs_queue_') \subseteq QueuedJobs(jobs_queue_)
                /\ \A j \in QueuedJobs(jobs_queue_) \ QueuedJobs(jobs_queue_') :
                     jobs'[j].st = "cancelled" /\ jobs'[j].done
        /\ (dpc = "drain" /\ dpc' = "notify") => jobs_queue_' = <<>>
        /\ \A j \in JobIds : jobs[j].st = "cancelled" => jobs'[j].st = "cancelled"]_vars

\* C5 witness: a caller is in wait() on a job that the destructor has cancelled
C5_Witness ==
  \E c \in Callers :
    /\ pc[c] = "wait"
    /\ jobs[call[c].job].st = "cancelled"
    /\ stop_

\* C6: once the destructor has set the stop flag, the worker leaves its loop,
\* tears down and exits, and join returns.
C6_ShutdownTerminates == stop_ ~> (dpc = "joined" \/ Crashed)

\* C7: a removeMesh of a handle that is not registered throws, leaves the
\* registry, next_handle_ and min_handle_ as the call found them, and releases
\* meshes_mutex_.
C7_FailedRemoveChangesNothing ==
  [][\A c \in Callers :
       (ReturnsFrom(c, "remove") /\ call[c].arg \notin DOMAIN call[c].seen.meshes)
         => /\ pc'[c] = "threw"
            /\ meshes_' = call[c].seen.meshes
            /\ next_handle_' = call[c].seen.next
            /\ min_handle_' = call[c].seen.min
            /\ meshes_mutex_' = FREE]_vars

\* C7 witness: removeMesh has thrown for an unregistered handle while another
\* handle was registered
C7_Witness ==
  \E c \in Callers :
    /\ pc[c] = "threw" /\ call[c].op = "remove"
    /\ DOMAIN call[c].seen.meshes # {}
    /\ call[c].arg \notin DOMAIN call[c].seen.meshes

\* the two encodings of a sensor frame: floating point and 16-bit unsigned
FrameEncodings == {GL_FLOAT, GL_UNSIGNED_SHORT}

\* C8: filter with an unsupported encoding throws in the calling thread and
\* creates no job: queue, jobs, registry and both buffers are unchanged, and no
\* filter job ever carries an unsupported encoding.
C8_UnknownEncodingRejected ==
  /\ [](\A j \in JobIds : jobs[j].kind = "filter" => jobs[j].arg \in FrameEncodings)
  /\ [][\A c \in Callers :
          (pc[c] = "idle" /\ call'[c].op = "filter" /\ call'[c].arg \notin FrameEncodings)
            => /\ pc'[c] = "threw"
               /\ UNCHANGED <<jobs_queue_, jobs, meshes_, renderBuf, filterBuf, wpc, wjob>>]_vars

\* C8 witness: filter has thrown while the buffers of an earlier pass exist
C8_Witness ==
  \E c \in Callers :
    /\ pc[c] = "threw" /\ call[c].op = "filter"
    /\ call[c].arg \notin FrameEncodings
    /\ filterBuf.pass # 0

\* C9: a filter pass iterates over every handle that addMesh had returned when
\* the request was submitted, renders no handle whose removeMesh had returned by
\* then, and a readback submitted by a thread after its filter request executes
\* after that pass and reads buffers at least as recent.
C9_FifoVisibility ==
  /\ (wpc = "render" /\ pass.todo = {})
       => /\ jobs[wjob].see \subseteq pass.iter
          /\ jobs[wjob].notsee \cap pass.rendered = {}
  /\ \A r \in JobIds :
       (jobs[r].kind = "labels" /\ Executed(r) /\ lastFilter[jobs[r].owner] # 0)
         => /\ jobs[lastFilter[jobs[r].owner]].st = "completed"
            /\ jobs[r].st = "completed" => jobs[r].data.pass >= lastFilter[jobs[r].owner]

\* C9 witness: a render loop has ended that iterated over and rendered a handle
\* returned before the request
C9_Witness ==
  /\ wpc = "render" /\ pass.todo = {}
  /\ jobs[wjob].see # {}
  /\ jobs[wjob].see \subseteq pass.rendered

\* C10: setSize runs as a job of the worker, so no resize is in progress while
\* a job is executing.
C10_ResizeNotConcurrent ==
  \A c \in Callers :
    pc[c] \in {"size_rc", "size_f", "size_fc"} => \A j \in JobIds : jobs[j].st # "running"

\* C11: in a render pass the meshes rendered are exactly the registered meshes
\* for which the transform callback returned a pose; a mesh without a pose is
\* skipped, the loop goes on, the filter stage follows the render stage and
\* completes the job, and the registry is the same after the pass.
C11_PoseUnavailableSkipped ==
  /\ [](wpc = "render"
          => /\ pass.rendered = pass.posed
             /\ renderBuf.labels = pass.posed
             /\ pass.iter \cup pass.todo = DOMAIN meshes_)
  /\ [][/\ wpc = "render"
             => /\ meshes_' = meshes_
                /\ pass.todo # {} => wpc' = "render"
                /\ wpc' # "render" => /\ pass.todo = {}
                                       /\ filterBuf'.pass = wjob
                                       /\ filterBuf'.labels = pass.posed
                                       /\ wpc' = "filtered"
        /\ wpc = "filtered" => meshes_' = meshes_ /\ wpc' \in {"filtered", "finish"}
        /\ wpc = "finish"
             => /\ meshes_' = meshes_
                /\ wpc' # "finish" => jobs'[wjob].st = "completed"]_vars

\* C11 witness: a render loop has ended in which one registered mesh had a
\* pose and another had none
C11_Witness ==
  /\ wpc = "render" /\ pass.todo = {}
  /\ pass.posed # {}
  /\ pass.iter \ pass.posed # {}

\* a caller is inside the setter op, before its store
Storing(c, op) == pc[c] = "store" /\ call[c].op = op

\* the worker's next statement can be the read of the padding scalar (line 327)
ReadsPadding(which) == wpc = "padding" /\ which \in pass.unread

\* the worker's next statement is the read of shadow_threshold_ (line 353)
ReadsThreshold == wpc = "render" /\ pass.todo = {}

\* C12: a setter writes its scalar under a parameter lock that the pass holds
\* when it reads the scalar, so no thread is about to store a scalar while the
\* worker is about to read the same scalar.
C12_ScalarsUnderLock ==
  \A c \in Callers :
    /\ Storing(c, "setShadowThreshold") => ~ReadsThreshold
    /\ Storing(c, "setPaddingScale") => ~ReadsPadding("scale")
    /\ Storing(c, "setPaddingOffset") => ~ReadsPadding("offset")

\* the readback calls and the jobs they create
ReadOps == {"labels", "flabels", "mdepth", "fdepth"}
ReadKinds == ReadOps \cup {"mmetric", "fmetric"}

\* contents of a label array read from a renderer's buffers
LabelsOf(buf) == [pass |-> buf.pass, labels |-> buf.labels]

\* C13: no step of a readback call, in the calling thread or in the worker,
\* changes the buffers of the render pass or of the filter pass, the registry or
\* the handle counters; and what a readback has returned is what the buffer it
\* read holds for as long as no later pass has drawn into it, so that two
\* readbacks of one buffer with no pass between them return the same contents.
C13_ReadbackIdempotent ==
  /\ [][/\ (wpc = "body" /\ jobs[wjob].kind \in ReadKinds /\ wpc' # "body")
             => UNCHANGED <<renderBuf, filterBuf, meshes_, next_handle_, min_handle_>>
        /\ \A c \in Callers :
             (pc'[c] # pc[c] /\ (call[c].op \in ReadOps \/ call'[c].op \in ReadOps))
               => UNCHANGED <<renderBuf, filterBuf, meshes_, next_handle_, min_handle_>>]_vars
  /\ [](\A c \in Callers :
          pc[c] = "returned" =>
            /\ (call[c].op = "labels" /\ call[c].buf.pass = renderBuf.pass)
                 => call[c].buf = LabelsOf(renderBuf)
            /\ (call[c].op = "flabels" /\ call[c].buf.pass = filterBuf.pass)
                 => call[c].buf = LabelsOf(filterBuf)
            /\ (call[c].op = "mdepth" /\ call[c].depth.pass = renderBuf.pass)
                 => call[c].depth = ToMetric(GetDepthBuffer(renderBuf), "mmetric")
            /\ (call[c].op = "fdepth" /\ call[c].depth.pass = filterBuf.pass)
                 => call[c].depth = ToMetric(GetDepthBuffer(filterBuf), "fmetric"))

\* C13 witness: two readbacks of the labels of a pass that rendered a mesh
\* have returned the same contents
C13_Witness ==
  \E c, d \in Callers :
    /\ c # d
    /\ pc[c] = "returned" /\ pc[d] = "returned"
    /\ call[c].op = "labels" /\ call[d].op = "labels"
    /\ call[c].buf.labels # {}
    /\ call[c].buf = call[d].buf

\* the texture holds the upload of a 16-bit frame
UploadedShort == filterBuf.pass # 0 /\ filterBuf.enc = GL_UNSIGNED_SHORT

\* the far plane is within the 65.535 m that a 16-bit sample can express
FarInRange == ~RLess(Rat(USHRT_MAX, MM_PER_M), sensor_parameters_.far)

\* normalized depth of a point at metric distance z: 0 at near, 1 at far
Normalized(z, parameters) ==
  RMul(RSub(z, parameters.near), RInv(RSub(parameters.far, parameters.near)))

RunsToCompletion ==
  \A j \in 1 .. MaxJobs :
    (j \in JobIds /\ jobs[j].st = "running")
      ~> ((j \in JobIds /\ jobs[j].st = "completed") \/ Crashed)

\* a job that has been created eventually ends, completed or cancelled
EveryJobEnds ==
  \A j \in 1 .. MaxJobs : (j \in JobIds) ~> ((j \in JobIds /\ Ended(j)) \/ Crashed)

\* C15: the job that the worker holds is never cancelled, also when the
\* destructor's critical section runs while the job is dequeued: a running job
\* only becomes completed and eventually does, a completed job stays
\* completed, only a pending job of the queue becomes cancelled and only in the
\* destructor's critical section, a job whose done_ is set is either completed
\* or cancelled, and every job eventually ends in one of these two states.
C15_DequeuedJobCompletes ==
  /\ RunsToCompletion
  /\ EveryJobEnds
  /\ [](/\ wjob # 0 => jobs[wjob].st # "cancelled"
        /\ \A j \in JobIds : jobs[j].done <=> Ended(j))
  /\ [][\A j \in JobIds :
          /\ jobs[j].st = "running" => jobs'[j].st \in {"running", "completed"}
          /\ jobs[j].st = "completed" => jobs'[j].st = "completed"
          /\ (jobs'[j].st = "completed" /\ jobs[j].st # "completed")
               => jobs[j].st = "running" /\ wjob = j
          /\ (jobs'[j].st = "cancelled" /\ jobs[j].st # "cancelled")
               => /\ jobs[j].st = "pending"
                  /\ jobs_queue_ # <<>> /\ j = Head(jobs_queue_)
                  /\ dpc = "drain" /\ dpc' = "drain" /\ jobs_mutex_ = DTOR
          /\ (wjob = j /\ ~stop_ /\ stop_') => jobs'[j] = jobs[j]]_vars

\* C16: with no shutdown, every job that addJob has appended is eventually
\* executed by the worker, wherever the worker was in its loop at the push, and
\* every caller in wait() on its job eventually leaves wait().
C16_NoLostWakeup ==
  /\ \A j \in 1 .. MaxFairJobs :
       (j \in JobIds /\ jobs[j].st = "pending") ~> (j \in JobIds /\ Executed(j))
  /\ \A c \in Callers : (pc[c] = "wait") ~> (pc[c] # "wait")

\* C16 witness: a job is in the queue while the worker sleeps on the condition
\* and the caller has not yet notified
C16_Witness ==
  /\ wpc = "waiting"
  /\ jobs_queue_ # <<>>
  /\ \E c \in Callers : pc[c] = "notify"

\* the worker is inside doFilter, holding what it locked at line 312
InPass == wpc \in {"padding", "render", "filtered"}

\* no step taken during the pass replaces the callback
CallbackKept == InPass => UNCHANGED transform_callback_

\* C17: while a pass is between its first and its last statement the worker
\* holds transform_callback_mutex_, the callback is not replaced, and every
\* call of the callback in the pass went to the callback that was installed
\* when the pass started.
C17_CallbackFixedDuringPass ==
  /\ [](InPass => /\ transform_callback_mutex_ = WORKER
                   /\ pass.cbs \subseteq {transform_callback_})
  /\ [][CallbackKept]_vars

\* C17 witness: a pass over two meshes has used a callback installed by
\* setTransformCallback
C17_Witness ==
  /\ wpc = "render"
  /\ Cardinality(pass.iter) >= 2
  /\ pass.cbs = {"cb1"}

\* C18: every handle returned by addMesh, every key of the registry, and
\* next_handle_ and min_handle_ in every state are at least FIRST_LABEL,
\* whatever handles removeMesh is called with.
C18_ReservedNeverIssued ==
  /\ next_handle_ >= FIRST_LABEL
  /\ min_handle_ >= FIRST_LABEL
  /\ \A h \in DOMAIN meshes_ : h >= FIRST_LABEL
  /\ \A c \in Callers :
       pc[c] = "returned" /\ call[c].op = "add" => call[c].ret >= FIRST_LABEL

\* a removeMesh of a reserved label has thrown after a handle was freed, and
\* an addMesh has returned since
C18_Witness ==
  /\ settledOut # {}
  /\ \E c, d \in Callers :
       /\ pc[c] = "threw" /\ call[c].op = "remove" /\ call[c].arg < FIRST_LABEL
       /\ pc[d] = "returned" /\ call[d].op = "add"

\* a step that releases a render target
Teardown ==
  \/ mesh_renderer_.live /\ ~mesh_renderer_'.live
  \/ depth_filter_.live /\ ~depth_filter_'.live

\* the render targets are released only by the worker in deInitialize, after
\* it has left its loop on stop_ and has cleared the registry, with no job
\* executing
TeardownAfterLoop ==
  Teardown =>
    /\ wpc \in {"deinit_renderer", "deinit_filter"} /\ stop_ /\ wjob = 0
    /\ meshes_ = NoMeshes /\ ~mesh_renderer_'.live
    /\ \A j \in JobIds : jobs[j].st # "running"

\* once the worker has left its loop no job begins or finishes execution
NoJobAfterLoop ==
  wpc \in {"deinit", "deinit_texture", "deinit_meshes", "deinit_renderer",
           "deinit_filter", "done"} =>
    \A j \in DOMAIN jobs' :
      jobs'[j].st \in {"running", "completed"} => (j \in JobIds /\ jobs[j].st = jobs'[j].st)

\* C19: no job has been executed while the worker is still initializing; a
\* job executes only while both render targets exist; teardown happens only
\* after the worker has left its loop, never while a job is executing and
\* never before a job that is still executed.
C19_ResourcesEncloseJobs ==
  /\ [](wpc \in {"init", "init_filter"} => \A j \in JobIds : ~Executed(j))
  /\ [](\A j \in JobIds :
          jobs[j].st = "running" => wjob = j /\ mesh_renderer_.live /\ depth_filter_.live)
  /\ [][TeardownAfterLoop]_vars
  /\ [][NoJobAfterLoop]_vars

\* the worker has torn down after one job was executed and another was
\* cancelled by the destructor
C19_Witness ==
  /\ wpc = "done" /\ ~mesh_renderer_.live /\ ~depth_filter_.live
  /\ \E i, j \in JobIds : jobs[i].st = "completed" /\ jobs[j].st = "cancelled"

\* a job is appended while another job is executing
PushedWhileRunning(c) ==
  /\ wjob # 0 /\ jobs[wjob].st = "running" /\ jobs'[wjob].st = "running"
  /\ pc[c] = "push" /\ pc'[c] = "notify"

\* C20: while a job executes the worker does not hold jobs_mutex_, so the
\* append of addJob can be taken; a job appended during the execution is
\* pending at the back of the queue, and it is executed, after the running
\* job has completed.
C20_QueueLockFreeWhileExecuting ==
  /\ [](\A k \in JobIds : jobs[k].st = "running" => jobs_mutex_ # WORKER)
  /\ [][\A c \in Callers :
          PushedWhileRunning(c) =>
            /\ jobs_queue_' # <<>>
            /\ jobs_queue_'[Len(jobs_queue_')] = call'[c].job
            /\ jobs'[call'[c].job].st = "pending"]_vars
  /\ [](\A j, k \in JobIds :
          jobs[k].st = "running" /\ jobs[j].st = "pending" => wjob = k /\ ~Executed(j))
  /\ \A j, k \in 1 .. MaxFairJobs :
       (j \in JobIds /\ k \in JobIds /\ jobs[k].st = "running" /\ jobs[j].st = "pending")
         ~> (j \in JobIds /\ k \in JobIds /\ jobs[k].st = "completed" /\ Executed(j))

\* a caller has appended its job while the job of the other caller executes
C20_Witness ==
  /\ wjob # 0 /\ jobs[wjob].st = "running" /\ jobs_queue_ # <<>>
  /\ \E c \in Callers :
       /\ pc[c] = "notify" /\ call[c].job # wjob
       /\ jobs[call[c].job].st = "pending"
       /\ jobs[wjob].owner # c

\* the job of caller c's blocking call was cancelled by the destructor
CancelledCall(c, op) == ReturnsFrom(c, op) /\ jobs[call[c].job].st = "cancelled"

\* C21: a blocking addMesh or removeMesh whose job was cancelled does not
\* return as a success: addMesh returns no handle and leaves next_handle_ and
\* min_handle_ alone, removeMesh throws and does not lower min_handle_.
C21_CancelledCallFails ==
  [][\A c \in Callers :
       /\ CancelledCall(c, "add") =>
            /\ pc'[c] # "returned"
            /\ next_handle_' = call[c].seen.next /\ min_handle_' = call[c].seen.min
       /\ CancelledCall(c, "remove") =>
            (pc'[c] # "returned" /\ min_handle_' = min_handle_)]_vars

\* no addMesh or removeMesh call is between its lock and its unlock
NoMeshCall == meshes_mutex_ = FREE

\* handles of the scan window of addMesh (line 180) that are not registered
FreeInWindow ==
  {i \in min_handle_ .. (min_handle_ + Cardinality(DOMAIN meshes_)) : i \notin DOMAIN meshes_}

\* an addMesh leaves next_handle_ at the smallest unregistered handle
AddLeavesSmallestFree ==
  \A c \in Callers :
    ReturnsFrom(c, "add") => next_handle_' = SmallestFree(DOMAIN meshes_')

\* C22: between mesh calls every handle from FIRST_LABEL up to min_handle_ is
\* registered and next_handle_ is not; the window that addMesh scans contains
\* an unregistered handle; and each addMesh leaves next_handle_ at the
\* smallest unregistered handle >= FIRST_LABEL.
C22_AllocatorInvariant ==
  /\ [](NoMeshCall =>
          /\ \A h \in FIRST_LABEL .. (min_handle_ - 1) : h \in DOMAIN meshes_
          /\ next_handle_ \notin DOMAIN meshes_)
  /\ [](\A c \in Callers : Waited(c, "add") => FreeInWindow # {})
  /\ [][AddLeavesSmallestFree]_vars

\* caller c is in a depth readback whose two jobs have been appended
DepthPushed(c) == call[c].op \in {"mdepth", "fdepth"} /\ call[c].job2 # 0

\* the buffers that the depth readback op reads
DepthSource(op) == IF op = "mdepth" THEN renderBuf ELSE filterBuf

\* between the two jobs of c's readback no other job is executing and the
\* conversion is at the front of the queue or has just been taken from it
ConversionNext(c) ==
  (jobs[call[c].job].st = "completed" /\ jobs[call[c].job2].st = "pending") =>
    /\ \/ jobs_queue_ # <<>> /\ Head(jobs_queue_) = call[c].job2
       \/ wjob = call[c].job2
    /\ \A k \in JobIds : jobs[k].st # "running"

\* the conversion job finds the array as the readback job wrote it, from
\* buffers that have not changed since, and converts it once
ConvertsWhatWasRead(c) ==
  (wpc = "body" /\ wpc' # "body" /\ DepthPushed(c) /\ wjob = call[c].job2) =>
    /\ call[c].depth = GetDepthBuffer(DepthSource(call[c].op))
    /\ call'[c].depth.metric = <<MetricJob(call[c].op)>>
    /\ call'[c].depth.pass = call[c].depth.pass
    /\ call'[c].depth.labels = call[c].depth.labels

\* the call returns after both jobs have completed, with an array that was
\* converted once
ReturnsAfterBoth(c) ==
  (pc[c] = "wait2" /\ pc'[c] = "returned") =>
    /\ jobs[call[c].job].st = "completed" /\ jobs[call[c].job2].st = "completed"
    /\ call'[c].depth.metric = <<MetricJob(call[c].op)>>

\* C23: the two jobs of a getModelDepth or getFilteredDepth call are adjacent
\* in the queue, readback first; the conversion is executed after the
\* readback with no other job between them, once, on the array as read; and
\* the call returns only after both.
C23_DepthJobsAdjacent ==
  /\ [](\A c \in Callers :
          DepthPushed(c) =>
            /\ call[c].job2 = call[c].job + 1
            /\ Executed(call[c].job2) => jobs[call[c].job].st = "completed"
            /\ \A i \in DOMAIN jobs_queue_ :
                 jobs_queue_[i] = call[c].job =>
                   (i < Len(jobs_queue_) /\ jobs_queue_[i + 1] = call[c].job2)
            /\ ConversionNext(c))
  /\ [][\A c \in Callers : ConvertsWhatWasRead(c) /\ ReturnsAfterBoth(c)]_vars

\* the readback job of one caller has completed and its conversion is still
\* queued, ahead of a job of the other caller
C23_Witness ==
  \E c, d \in Callers :
    /\ c # d /\ DepthPushed(c)
    /\ jobs[call[c].job].st = "completed" /\ jobs[call[c].job2].st = "pending"
    /\ call[d].job # 0 /\ jobs[call[d].job].st = "pending"
    /\ Len(jobs_queue_) >= 2

\* C24: whenever a caller thread dereferences mesh_renderer_ or depth_filter_
\* (to capture the renderer for a readback job, or in setSize) the renderer
\* exists: no call has stopped on an empty pointer and no job holds a
\* reference to no renderer.
C24_RenderersExistWhenDereferenced ==
  \A c \in Callers : pc[c] # "crashed" /\ call[c].ref # NULL
====
